---- MODULE Spec2Model ----
(***************************************************************************)
(* Model of the scheduler of pako-telegram                                 *)
(* (src/internal/scheduler/scheduler.go): the command set, the paused set, *)
(* the single-slot wakeup channel and the Run loop, interleaved with the   *)
(* callers of SetPaused / UpdateCommands, the clock and cancellation.      *)
(*                                                                         *)
(* Time is counted in ticks.  A day has DayLen ticks, a TimeOfDay is a     *)
(* tick of the day (0 .. DayLen-1), time.Time{} (the zero time) is 0 and   *)
(* the clock starts after it.                                              *)
(***************************************************************************)
EXTENDS Integers, Sequences, FiniteSets, TLC

\* ---------------------------------------------------------------- bounds
DayLen == 3
MaxTime == 3
NumChats == 2
IntervalLen == 2
ShortIntervalLen == 1
MaxConfirm == 2
MaxSessions == 2
MaxArgs == 3

\* ------------------------------------------------------------- constants
WakeupCap == 1
ZeroTime == 0
TimeTextLen == 5
ColonIndex == 2
Digit0 == 48
Digit9 == 57
Colon == 58
MaxHour == 23
MaxMinute == 59
RuneSelf == 128
RuneError == 65533
defaultArgumentTimeout == 1
confirmationTTL == 1
callbackConfirm == "confirm:"
callbackCancel == "cancel:"

Names == {"a", "b"}
ChatIDs == [i \in 1..NumChats |-> 100 + i]
TimeOfDay == 0..(DayLen - 1)

VARIABLES
  pending,     \* cm.pending: confirmation id -> PendingConfirmation
  nextConfirm, \* number of the next id generateID returns
  conf,        \* per id, how far its RequestConfirmation call has got
  cb,          \* per goroutine: the locals of its HandleCallback call
  granted,     \* history: per id, the calls that returned (pending, true)
  cancelSeen,  \* history: the ids a cancel callback has looked up
  cycleLate,   \* history: the names whose last interval-mode cycle started overdue
  cycleAt,     \* history: per name, the lastRun its last interval-mode cycle wrote
  fired,       \* history: the time-of-day occurrences <<name, instant>> whose timer fired
  smu,         \* holder of s.mu: "" (free), "Run" or "caller"
  commands,    \* s.commands: sequence of ScheduledCommand records
  paused,      \* s.paused: the names mapped to true
  wakeup,      \* number of signals buffered in s.wakeup
  now,         \* the wall clock, time.Now()
  cancelled,   \* ctx.Done() is closed
  pc,          \* position of the Run loop
  nextTime,    \* Run's local nextTime
  cmd,         \* Run's local cmd: a pointer into the slice nextExecution read
  chatIdx,     \* index of the next chat in executeForAllChats' loop
  dirty,       \* history: a mutation happened after the last nextExecution
  owed,        \* history: commands whose instant arrived and that have not fired since
  result,      \* what Run returned ("" while it runs)
  calls,       \* history: the chat IDs ExecuteScheduled returned for in this cycle
  failed,      \* history: a call of this firing cycle has returned an error
  text,        \* ParseTime: the argument s, a sequence of bytes
  parsed,      \* ParseTime: what the call returned
  yamlCommands, \* the YAML commands with arguments that are loaded
  sessions,    \* ArgumentCollector.sessions: chat ID -> ArgumentSession
  nextSid,     \* identity of the next ArgumentSession object allocated
  ret,         \* what the last ArgumentCollector method called as one step returned
  hpc,         \* per update handler goroutine: its position
  hlocal,      \* per update handler goroutine: collected, cmd of executeWithArguments
  completed,   \* history: per session, the CompleteSession calls that returned it
  executed,    \* history: per session, the executions of its command
  discarded,   \* history: the sessions with an answer that a StartSession replaced
  mu,          \* the handler inside ProcessInput with c.mu locked ("" when it is free)
  retired,     \* the ArgumentSession objects no longer in the map, as they were left
  torn,        \* history: handlers that read a session while ProcessInput was writing it
  hin          \* per update handler goroutine: msg.Text and currentArg of handleArgumentInput

schedVars == <<commands, paused, wakeup, now, cancelled, pc, nextTime, cmd,
               chatIdx, dirty, owed, result, calls, failed>>

parseVars == <<text, parsed>>

\* The mutex of the Scheduler, for the steps that take it apart.
lockVars == <<smu>>

\* The history of the timers that fired and of the cycles that started.
firedVars == <<fired, cycleAt, cycleLate>>

\* The ConfirmationManager and the calls of HandleCallback.
confirmVars == <<pending, nextConfirm, conf, cb, granted, cancelSeen>>

\* The variables of the handlers taken step by step.
stepVars == <<mu, retired, torn, hin>>

sessVars == <<yamlCommands, sessions, nextSid, ret, hpc, hlocal, completed, executed,
              discarded, stepVars>>

\* The variables no method of the Scheduler touches.
nonSchedVars == <<parseVars, sessVars, lockVars, firedVars, confirmVars>>

\* The variables ParseTime does not touch.
nonParseVars == <<schedVars, sessVars, lockVars, firedVars, confirmVars>>

\* The variables that the ArgumentCollector and the update handlers do not
\* touch: those of the Scheduler but the clock, and those of ParseTime.  The
\* methods of the ArgumentCollector called as a whole do not touch those of
\* the handlers taken step by step either.
outsideVars == <<commands, paused, wakeup, cancelled, pc, nextTime, cmd,
                 chatIdx, dirty, owed, result, calls, failed, parseVars, lockVars, firedVars,
                 confirmVars>>

nonSessVars == <<outsideVars, stepVars>>

vars == <<schedVars, parseVars, sessVars, lockVars, firedVars, confirmVars>>

\* ------------------------------------------------------------ data model
\* A ScheduledCommand as its caller builds it (extractScheduledCommands):
\* lastRun is unexported and therefore the zero time.
ScheduledCommand(n, ts, iv, ip) ==
  [Name |-> n, Times |-> ts, Interval |-> iv, InitialPaused |-> ip, lastRun |-> ZeroTime]

\* The schedules of the configuration files: one time of day (started
\* paused or not), or an interval.  extractScheduledCommands skips a command
\* with neither.
CommandInputs(n) ==
  {ScheduledCommand(n, <<DayLen - 1>>, 0, ip) : ip \in BOOLEAN}
  \cup
  {ScheduledCommand(n, <<>>, IntervalLen, FALSE)}

\* The lists a reload can pass: command names are unique in the registry.
ReloadInputs ==
  {<<>>}
  \cup {<<c>> : c \in CommandInputs("a") \cup CommandInputs("b")}
  \cup {<<c, d>> : c \in CommandInputs("a"), d \in CommandInputs("b")}

\* Command sets for nextExecution alone: up to two times of day per command,
\* an interval that is negative, zero or positive, any lastRun, either order.
TimeLists ==
  {<<>>} \cup {<<t>> : t \in TimeOfDay} \cup {<<t, u>> : t \in TimeOfDay, u \in TimeOfDay}

WideCommands(n) ==
  {[ScheduledCommand(n, ts, 0, FALSE) EXCEPT !.lastRun = ZeroTime] : ts \in TimeLists}
  \cup
  {[ScheduledCommand(n, <<>>, IntervalLen, FALSE) EXCEPT !.lastRun = lr] : lr \in 0..MaxTime}
  \cup
  {[ScheduledCommand(n, <<0>>, IntervalLen, FALSE) EXCEPT !.lastRun = lr] : lr \in {0, 1}}
  \cup
  {ScheduledCommand(n, <<0>>, -1, FALSE)}

WideSets ==
  {<<>>}
  \cup {<<c>> : c \in WideCommands("a") \cup WideCommands("b")}
  \cup {<<c, d>> : c \in WideCommands("a"), d \in WideCommands("b")}
  \cup {<<d, c>> : c \in WideCommands("a"), d \in WideCommands("b")}

\* A nil *ScheduledCommand / a pointer to element idx of the slice that was
\* s.commands when nextExecution ran.  live: the slice is still s.commands.
NoCmd == [idx |-> 0, Name |-> "", Interval |-> 0, live |-> FALSE]

\* ------------------------------------------------------- time arithmetic
\* Mutant: a time of day equal to now is today's.
nextTimeOfDayNotBefore(t, tod) ==
  LET next == (t - (t % DayLen)) + tod
  IN  IF next < t THEN next + DayLen ELSE next

\* "next" is today's date at tod; "if !next.After(now)" it is moved by a day.
nextTimeOfDay(t, tod) ==
  LET next == (t - (t % DayLen)) + tod
  IN  IF ~(next > t) THEN next + DayLen ELSE next

\* ---------------------------------------------------------- nextExecution
\* Mutant: the comparison is After instead of Before.
EarlierAfter(nextRun, earliest) == earliest = ZeroTime \/ nextRun > earliest

\* "earliest.IsZero() || nextRun.Before(earliest)"
Earlier(nextRun, earliest) == earliest = ZeroTime \/ nextRun < earliest

\* Mutant: the paused check is missing.
SkippedNever(c, p) == FALSE

\* Mutant: the paused check is inverted.
SkippedInverted(c, p) == c.Name \notin p

\* "if s.paused[cmd.Name] { continue }"
Skipped(c, p) == c.Name \in p

\* nextRun of an interval command
IntervalNextRun(c, t) ==
  IF c.lastRun = ZeroTime THEN t ELSE c.lastRun + c.Interval

RECURSIVE ScanTimes(_, _, _, _, _)
ScanTimes(times, k, t, i, acc) ==
  IF k > Len(times) THEN acc
  ELSE LET nextRun == nextTimeOfDay(t, times[k])
       IN  ScanTimes(times, k + 1, t, i,
                     IF Earlier(nextRun, acc.earliest)
                     THEN [earliest |-> nextRun, idx |-> i] ELSE acc)

RECURSIVE ScanCommands(_, _, _, _, _)
ScanCommands(cmds, p, t, i, acc) ==
  IF i > Len(cmds) THEN acc
  ELSE LET c == cmds[i]
       IN  IF Skipped(c, p) THEN ScanCommands(cmds, p, t, i + 1, acc)
           ELSE IF c.Interval > 0
           THEN LET nextRun == IntervalNextRun(c, t)
                IN  ScanCommands(cmds, p, t, i + 1,
                                 IF Earlier(nextRun, acc.earliest)
                                 THEN [earliest |-> nextRun, idx |-> i] ELSE acc)
           ELSE ScanCommands(cmds, p, t, i + 1, ScanTimes(c.Times, 1, t, i, acc))

\* Returns (earliest, index of earliestCmd); idx = 0 is the nil pointer.
nextExecution(cmds, p, t) ==
  IF Len(cmds) = 0 THEN [earliest |-> ZeroTime, idx |-> 0]
  ELSE ScanCommands(cmds, p, t, 1, [earliest |-> ZeroTime, idx |-> 0])

\* ------------------------------------------------------------ operations
IsPaused(name) == name \in paused

\* Mutant: the channel has no buffer, a signal nobody waits for is dropped.
SendUnbuffered(w) == w

\* Mutant: every signal is queued.
SendQueued(w) == w + 1

\* Non-blocking send on the wakeup channel: "select { case s.wakeup <- struct{}{}: default: }"
Send(w) == IF w < WakeupCap THEN w + 1 ELSE w

\* Mutant: SetPaused flips the flag instead of setting it.
PausedAfterSetToggle(p, name, flag) == IF name \in p THEN p \ {name} ELSE p \cup {name}

\* Mutant: SetPaused ignores a name that is not in the command set.
PausedAfterSetKnownOnly(p, name, flag) ==
  IF \E i \in DOMAIN commands : commands[i].Name = name
  THEN (IF flag THEN p \cup {name} ELSE p \ {name})
  ELSE p

\* The paused map after SetPaused's locked section.
PausedAfterSet(p, name, flag) == IF flag THEN p \cup {name} ELSE p \ {name}

\* SetPaused: the locked section, then the signal.
SetPaused(name, flag) ==
  /\ paused' = PausedAfterSet(paused, name, flag)
  /\ wakeup' = Send(wakeup)
  /\ dirty' = TRUE
  /\ owed' = IF flag THEN owed \ {name} ELSE owed
  /\ UNCHANGED <<commands, now, cancelled, pc, nextTime, cmd, chatIdx, result, calls, failed, nonSchedVars>>

\* "existing": index in old of the command of that name (0: not found).
\* A later element of old overwrites an earlier one of the same name.
Existing(old, name) ==
  LET S == {j \in DOMAIN old : old[j].Name = name}
  IN  IF S = {} THEN 0 ELSE CHOOSE j \in S : \A k \in S : k <= j

\* Mutant: lastRun is not carried over.
CarryLastRunDropped(old, new) == new

\* Mutant: the new commands are appended to the old ones.
CarryLastRunAppend(old, new) == old \o new

\* The slice after the "Process new commands" loop.
CarryLastRun(old, new) ==
  [i \in DOMAIN new |->
     IF Existing(old, new[i].Name) # 0
     THEN [new[i] EXCEPT !.lastRun = old[Existing(old, new[i].Name)].lastRun]
     ELSE new[i]]

\* Mutant: InitialPaused is applied to retained commands too.
PausedAfterUpdateAlways(old, new, p) ==
  p \cup {new[i].Name : i \in {j \in DOMAIN new : new[j].InitialPaused}}

\* The paused map after the "Process new commands" loop.
PausedAfterUpdate(old, new, p) ==
  p \cup {new[i].Name : i \in {j \in DOMAIN new :
                                 Existing(old, new[j].Name) = 0 /\ new[j].InitialPaused}}

\* UpdateCommands: the locked section, then the signal.  The loop's cmd
\* keeps pointing into the replaced slice.
UpdateCommands(new) ==
  /\ commands' = CarryLastRun(commands, new)
  /\ paused' = PausedAfterUpdate(commands, new, paused)
  /\ cmd' = [cmd EXCEPT !.live = FALSE]
  /\ wakeup' = Send(wakeup)
  /\ dirty' = TRUE
  /\ owed' = {}
  /\ UNCHANGED <<now, cancelled, pc, nextTime, chatIdx, result, calls, failed, nonSchedVars>>

\* -------------------------------------------------------------- Run loop
\* "nextTime, cmd := s.nextExecution()" and the branch on cmd == nil
Compute ==
  /\ pc = "compute"
  /\ LET r == nextExecution(commands, paused, now)
     IN  /\ nextTime' = r.earliest
         /\ cmd' = IF r.idx = 0 THEN NoCmd
                   ELSE [idx |-> r.idx, Name |-> commands[r.idx].Name,
                         Interval |-> commands[r.idx].Interval, live |-> TRUE]
         /\ pc' = IF r.idx = 0 THEN "idle" ELSE "wait"
  /\ dirty' = FALSE
  /\ UNCHANGED <<commands, paused, wakeup, now, cancelled, chatIdx, owed, result, calls, failed, nonSchedVars>>

\* Mutant: Run returns although the context is not cancelled.
RecvDoneUncancelled ==
  /\ pc \in {"idle", "wait"}
  /\ pc' = "done"
  /\ result' = "ctx.Err"
  /\ UNCHANGED <<commands, paused, wakeup, now, cancelled, nextTime, cmd, chatIdx, dirty, owed, calls, failed, nonSchedVars>>

\* Mutant: only the select of the idle branch has the ctx.Done() case.
RecvDoneIdleOnly ==
  /\ pc = "idle"
  /\ cancelled
  /\ pc' = "done"
  /\ result' = "ctx.Err"
  /\ UNCHANGED <<commands, paused, wakeup, now, cancelled, nextTime, cmd, chatIdx, dirty, owed, calls, failed, nonSchedVars>>

\* "case <-ctx.Done(): return ctx.Err()" of either select
RecvDone ==
  /\ pc \in {"idle", "wait"}
  /\ cancelled
  /\ pc' = "done"
  /\ result' = "ctx.Err"
  /\ UNCHANGED <<commands, paused, wakeup, now, cancelled, nextTime, cmd, chatIdx, dirty, owed, calls, failed, nonSchedVars>>

\* "case <-s.wakeup: continue" of either select
RecvWakeup ==
  /\ pc \in {"idle", "wait"}
  /\ wakeup > 0
  /\ wakeup' = wakeup - 1
  /\ pc' = "compute"
  /\ nextTime' = ZeroTime
  /\ cmd' = NoCmd
  /\ UNCHANGED <<commands, paused, now, cancelled, chatIdx, dirty, owed, result, calls, failed, nonSchedVars>>

\* "case <-time.After(waitDuration)": the timer of max(0, nextTime - now) fired
RecvTimer ==
  /\ pc = "wait"
  /\ now >= nextTime
  /\ pc' = "fire"
  /\ nextTime' = ZeroTime
  /\ UNCHANGED <<commands, paused, wakeup, now, cancelled, cmd, chatIdx, dirty, owed, result, calls, failed, nonSchedVars>>

\* executeForAllChats up to its loop: "cmd.lastRun = time.Now()" writes
\* through the pointer, i.e. into s.commands only if the slice is still it.
\* From here on only cmd.Name and cmd.Command are read.
FireStart ==
  /\ pc = "fire"
  /\ commands' = IF cmd.Interval > 0 /\ cmd.live
                 THEN [commands EXCEPT ![cmd.idx].lastRun = now]
                 ELSE commands
  /\ cmd' = IF Len(ChatIDs) = 0 THEN NoCmd ELSE [NoCmd EXCEPT !.Name = cmd.Name]
  /\ chatIdx' = 1
  /\ pc' = IF Len(ChatIDs) = 0 THEN "compute" ELSE "exec"
  /\ owed' = owed \ {cmd.Name}
  /\ UNCHANGED <<paused, wakeup, now, cancelled, nextTime, dirty, result, calls, failed, nonSchedVars>>

\* Mutant: an error ends the loop over the chats.
NextChatStopOnError(idx, err) == IF err THEN Len(ChatIDs) + 1 ELSE idx + 1

\* "for _, chatID := range s.chatIDs": the error of a call is logged and the
\* loop goes on with the next chat.
NextChat(idx, err) == idx + 1

\* One iteration of the loop over the chats: the call for s.chatIDs[chatIdx]
\* returns nil or an error.  After the last one executeForAllChats returns
\* and Run starts its next iteration.
ExecuteScheduled(err) ==
  /\ pc = "exec"
  /\ chatIdx \in DOMAIN ChatIDs
  /\ err \in BOOLEAN
  /\ IF NextChat(chatIdx, err) > Len(ChatIDs)
     THEN /\ pc' = "compute"
          /\ chatIdx' = 1
          /\ nextTime' = ZeroTime
          /\ cmd' = NoCmd
          /\ calls' = <<>>
          /\ failed' = FALSE
     ELSE /\ pc' = "exec"
          /\ chatIdx' = NextChat(chatIdx, err)
          /\ calls' = Append(calls, ChatIDs[chatIdx])
          /\ failed' = (failed \/ err)
          /\ UNCHANGED <<nextTime, cmd>>
  /\ UNCHANGED <<commands, paused, wakeup, now, cancelled, dirty, owed, result, nonSchedVars>>

\* ----------------------------------------------------------- environment
\* The commands whose configured instant is the tick t.
DueAt(cmds, p, t) ==
  {cmds[i].Name : i \in {j \in DOMAIN cmds :
      /\ cmds[j].Name \notin p
      /\ ~(cmds[j].Interval > 0)
      /\ \E k \in DOMAIN cmds[j].Times : cmds[j].Times[k] = t % DayLen}}

Tick ==
  /\ now < MaxTime
  /\ now' = now + 1
  /\ owed' = owed \cup DueAt(commands, paused, now + 1)
  /\ UNCHANGED <<commands, paused, wakeup, cancelled, pc, nextTime, cmd, chatIdx, dirty, result, calls, failed, nonSchedVars>>

Cancel ==
  /\ ~cancelled
  /\ cancelled' = TRUE
  /\ UNCHANGED <<commands, paused, wakeup, now, pc, nextTime, cmd, chatIdx, dirty, owed, result, calls, failed, nonSchedVars>>

\* ------------------------------------------- the occurrences that fired
\* RecvTimer with the occurrence of a time-of-day command recorded: its name
\* and the instant nextExecution computed for it.
RecvTimerRecorded ==
  /\ pc = "wait"
  /\ now >= nextTime
  /\ pc' = "fire"
  /\ nextTime' = ZeroTime
  /\ fired' = IF cmd.Interval > 0 THEN fired ELSE fired \cup {<<cmd.Name, nextTime>>}
  /\ UNCHANGED <<commands, paused, wakeup, now, cancelled, cmd, chatIdx, dirty, owed, result, calls, failed, cycleAt, cycleLate, parseVars, sessVars, lockVars, confirmVars>>

\* ------------------------------------------- the cycles that started
\* A command of the name is in the list in interval mode.
IntervalIn(cmds, name) ==
  \E i \in DOMAIN cmds : cmds[i].Name = name /\ cmds[i].Interval > 0

\* More than one interval has elapsed since the lastRun of the command of the
\* name in the list.
Overdue(cmds, name, t) ==
  /\ Existing(cmds, name) # 0
  /\ cmds[Existing(cmds, name)].lastRun # ZeroTime
  /\ t - cmds[Existing(cmds, name)].lastRun > cmds[Existing(cmds, name)].Interval

\* UpdateCommands with the history kept for the interval commands the new
\* list retains under their name only.
UpdateCommandsRecorded(new) ==
  /\ commands' = CarryLastRun(commands, new)
  /\ paused' = PausedAfterUpdate(commands, new, paused)
  /\ cmd' = [cmd EXCEPT !.live = FALSE]
  /\ wakeup' = Send(wakeup)
  /\ dirty' = TRUE
  /\ owed' = {}
  /\ cycleAt' = [n \in Names |->
                   IF IntervalIn(commands, n) /\ IntervalIn(new, n)
                   THEN cycleAt[n] ELSE ZeroTime]
  /\ cycleLate' = {n \in cycleLate : IntervalIn(commands, n) /\ IntervalIn(new, n)}
  /\ UNCHANGED <<now, cancelled, pc, nextTime, chatIdx, result, calls, failed, fired, parseVars, sessVars, lockVars, confirmVars>>

\* FireStart with the instant "time.Now()" of an interval command's cycle
\* recorded under its name.
FireStartRecorded ==
  /\ pc = "fire"
  /\ commands' = IF cmd.Interval > 0 /\ cmd.live
                 THEN [commands EXCEPT ![cmd.idx].lastRun = now]
                 ELSE commands
  /\ cmd' = IF Len(ChatIDs) = 0 THEN NoCmd ELSE [NoCmd EXCEPT !.Name = cmd.Name]
  /\ chatIdx' = 1
  /\ pc' = IF Len(ChatIDs) = 0 THEN "compute" ELSE "exec"
  /\ owed' = owed \ {cmd.Name}
  /\ cycleAt' = IF cmd.Interval > 0 /\ IntervalIn(commands, cmd.Name)
                THEN [cycleAt EXCEPT ![cmd.Name] = now] ELSE cycleAt
  /\ cycleLate' = IF cmd.Interval > 0 /\ IntervalIn(commands, cmd.Name)
                  THEN (IF Overdue(commands, cmd.Name, now)
                        THEN cycleLate \cup {cmd.Name} ELSE cycleLate \ {cmd.Name})
                  ELSE cycleLate
  /\ UNCHANGED <<paused, wakeup, now, cancelled, nextTime, dirty, result, calls, failed, fired, parseVars, sessVars, lockVars, confirmVars>>

\* ------------------------------------------- the Scheduler, lock by lock
\* The same methods with s.mu taken and released in steps of their own.
\* Run is the only reader modelled, so that the read lock of nextExecution
\* excludes exactly the writers.

\* SetPaused from "s.mu.Lock()" to just before "s.mu.Unlock()".
SetPausedLocked(name, flag) ==
  /\ smu = ""
  /\ smu' = "caller"
  /\ paused' = PausedAfterSet(paused, name, flag)
  /\ dirty' = TRUE
  /\ owed' = IF flag THEN owed \ {name} ELSE owed
  /\ UNCHANGED <<commands, wakeup, now, cancelled, pc, nextTime, cmd, chatIdx, result, calls, failed, parseVars, sessVars, firedVars, confirmVars>>

\* UpdateCommands from "s.mu.Lock()" to just before "s.mu.Unlock()".
UpdateCommandsLocked(new) ==
  /\ smu = ""
  /\ smu' = "caller"
  /\ commands' = CarryLastRun(commands, new)
  /\ paused' = PausedAfterUpdate(commands, new, paused)
  /\ cmd' = [cmd EXCEPT !.live = FALSE]
  /\ dirty' = TRUE
  /\ owed' = {}
  /\ UNCHANGED <<wakeup, now, cancelled, pc, nextTime, chatIdx, result, calls, failed, parseVars, sessVars, firedVars, confirmVars>>

\* "s.mu.Unlock()" of SetPaused or UpdateCommands and the non-blocking send
\* that follows it.
UnlockAndSignal ==
  /\ smu = "caller"
  /\ smu' = ""
  /\ wakeup' = Send(wakeup)
  /\ UNCHANGED <<commands, paused, now, cancelled, pc, nextTime, cmd, chatIdx, dirty, owed, result, calls, failed, parseVars, sessVars, firedVars, confirmVars>>

\* "s.mu.RLock()" of nextExecution
ComputeRLock ==
  /\ pc = "compute"
  /\ smu = ""
  /\ smu' = "Run"
  /\ pc' = "ne"
  /\ UNCHANGED <<commands, paused, wakeup, now, cancelled, nextTime, cmd, chatIdx, dirty, owed, result, calls, failed, parseVars, sessVars, firedVars, confirmVars>>

\* Mutant: nextExecution returns without releasing the read lock.
ComputeRUnlockMissing ==
  /\ pc = "ne"
  /\ LET r == nextExecution(commands, paused, now)
     IN  /\ nextTime' = r.earliest
         /\ cmd' = IF r.idx = 0 THEN NoCmd
                   ELSE [idx |-> r.idx, Name |-> commands[r.idx].Name,
                         Interval |-> commands[r.idx].Interval, live |-> TRUE]
         /\ pc' = IF r.idx = 0 THEN "idle" ELSE "wait"
  /\ dirty' = FALSE
  /\ UNCHANGED <<smu, commands, paused, wakeup, now, cancelled, chatIdx, owed, result, calls, failed, parseVars, sessVars, firedVars, confirmVars>>

\* The body of nextExecution, its deferred "s.mu.RUnlock()" and the branch
\* of Run on cmd == nil.
ComputeRUnlock ==
  /\ pc = "ne"
  /\ smu' = ""
  /\ LET r == nextExecution(commands, paused, now)
     IN  /\ nextTime' = r.earliest
         /\ cmd' = IF r.idx = 0 THEN NoCmd
                   ELSE [idx |-> r.idx, Name |-> commands[r.idx].Name,
                         Interval |-> commands[r.idx].Interval, live |-> TRUE]
         /\ pc' = IF r.idx = 0 THEN "idle" ELSE "wait"
  /\ dirty' = FALSE
  /\ UNCHANGED <<commands, paused, wakeup, now, cancelled, chatIdx, owed, result, calls, failed, parseVars, sessVars, firedVars, confirmVars>>

\* executeForAllChats from its loop on: the first chat, or the return to Run
\* if there is none.
EnterChatLoop ==
  /\ cmd' = IF Len(ChatIDs) = 0 THEN NoCmd ELSE [NoCmd EXCEPT !.Name = cmd.Name]
  /\ chatIdx' = 1
  /\ pc' = IF Len(ChatIDs) = 0 THEN "compute" ELSE "exec"
  /\ owed' = owed \ {cmd.Name}

\* "if cmd.Interval > 0 { s.mu.Lock()"
FireLock ==
  /\ pc = "fire"
  /\ cmd.Interval > 0
  /\ smu = ""
  /\ smu' = "Run"
  /\ pc' = "lastrun"
  /\ UNCHANGED <<commands, paused, wakeup, now, cancelled, nextTime, cmd, chatIdx, dirty, owed, result, calls, failed, parseVars, sessVars, firedVars, confirmVars>>

\* Mutant: the lock is released after the loop over the chats only.
FireUnlockAfterLoop ==
  /\ pc = "lastrun"
  /\ commands' = IF cmd.live THEN [commands EXCEPT ![cmd.idx].lastRun = now]
                 ELSE commands
  /\ EnterChatLoop
  /\ UNCHANGED <<smu, paused, wakeup, now, cancelled, nextTime, dirty, result, calls, failed, parseVars, sessVars, firedVars, confirmVars>>

\* "cmd.lastRun = time.Now(); s.mu.Unlock() }", then on to the loop
FireUnlock ==
  /\ pc = "lastrun"
  /\ commands' = IF cmd.live THEN [commands EXCEPT ![cmd.idx].lastRun = now]
                 ELSE commands
  /\ smu' = ""
  /\ EnterChatLoop
  /\ UNCHANGED <<paused, wakeup, now, cancelled, nextTime, dirty, result, calls, failed, parseVars, sessVars, firedVars, confirmVars>>

\* "if cmd.Interval > 0" is false: straight to the loop, no lock taken
FireUnlocked ==
  /\ pc = "fire"
  /\ ~(cmd.Interval > 0)
  /\ EnterChatLoop
  /\ UNCHANGED <<smu, commands, paused, wakeup, now, cancelled, nextTime, dirty, result, calls, failed, parseVars, sessVars, firedVars, confirmVars>>

\* ---------------------------------------------------------------- ParseTime
\* A string is its sequence of bytes.  The bytes of the texts: '/', the digits
\* 0 2 3 4 5 6 9, ':' and 0xC3, the first byte of a two-byte character.
Alphabet == {47, 48, 50, 51, 52, 53, 54, 57, 58, 195}

\* Every text of up to TimeTextLen bytes, and some of more bytes or with a
\* two-byte character (0xC3 0xA9).
Texts ==
  UNION {[1..n -> Alphabet] : n \in 0..TimeTextLen}
  \cup {<<48, 57, 58, 48, 48, c>> : c \in Alphabet}
  \cup {<<c, 48, 57, 58, 48, 48>> : c \in Alphabet}
  \cup {<<195, 169, 58, 48, 48>>, <<48, 57, 58, 195, 169>>, <<57, 58, 195, 169, 48>>,
        <<195, 169, 57, 58, 48, 48>>, <<48, 195, 169, 48, 48>>}

\* utf8 decoding at byte k (1-based), as "range s" does it: an ASCII byte is
\* its own rune, a two-byte sequence is one rune, any other byte is
\* RuneError of width 1.
DecodeRune(s, k) ==
  IF s[k] < RuneSelf THEN [c |-> s[k], w |-> 1]
  ELSE IF s[k] \in 194..223 /\ k + 1 <= Len(s) /\ s[k + 1] \in 128..191
  THEN [c |-> ((s[k] - 192) * 64) + (s[k + 1] - 128), w |-> 2]
  ELSE [c |-> RuneError, w |-> 1]

\* The (i, c) pairs of "for i, c := range s": i is the byte index from 0.
RECURSIVE RangeString(_, _)
RangeString(s, k) ==
  IF k > Len(s) THEN {}
  ELSE LET r == DecodeRune(s, k)
       IN  {[i |-> k - 1, c |-> r.c]} \cup RangeString(s, k + r.w)

\* Mutant: ':' passes as a digit.
NotDigitAboveColon(c) == c < Digit0 \/ c > Colon

\* "c < '0' || c > '9'"
NotDigit(c) == c < Digit0 \/ c > Digit9

\* "int(s[k]-'0')": byte arithmetic
ByteDigit(b) == (b - Digit0) % 256

ParseError(msg) == [done |-> TRUE, ok |-> FALSE, Hour |-> 0, Minute |-> 0, Message |-> msg]

ParseTime(s) ==
  IF Len(s) # TimeTextLen \/ s[ColonIndex + 1] # Colon
  THEN ParseError("must be in HH:MM format")
  ELSE IF \E r \in RangeString(s, 1) : r.i # ColonIndex /\ NotDigit(r.c)
  THEN ParseError("must be in HH:MM format")
  ELSE LET hour == (ByteDigit(s[1]) * 10) + ByteDigit(s[2])
           minute == (ByteDigit(s[4]) * 10) + ByteDigit(s[5])
       IN  IF hour > MaxHour THEN ParseError("hour must be 00-23")
           ELSE IF minute > MaxMinute THEN ParseError("minute must be 00-59")
           ELSE [done |-> TRUE, ok |-> TRUE, Hour |-> hour, Minute |-> minute, Message |-> ""]

\* No call has returned yet.
NotParsed == [done |-> FALSE, ok |-> FALSE, Hour |-> 0, Minute |-> 0, Message |-> ""]

ParseIdle == text = <<>> /\ parsed = NotParsed

\* A call of ParseTime with the text.
ParseTimeCall ==
  /\ ~parsed.done
  /\ parsed' = ParseTime(text)
  /\ UNCHANGED <<text, nonParseVars>>

\* ------------------------------------------------------ ArgumentCollector
\* A string is the sequence of its characters.
S_prod == <<"p", "r", "o", "d">>
S_dev == <<"d", "e", "v">>
S_gpt == <<"g", "p", "t">>
S_txt == <<"t", "x", "t">>
S_5 == <<"5">>
S_space == <<" ">>
S_empty == <<>>

\* The chats that talk to the bot, and its update handler goroutines.
ChatKeys == {101, 102}
Handlers == {"h1", "h2"}

ArgumentDef(name, required, type, choices, default) ==
  [Name |-> name, Required |-> required, Type |-> type, Choices |-> choices,
   Default |-> default]

YAMLCommand(name, arguments, timeout) ==
  [Name |-> name, Arguments |-> arguments, ArgumentTimeout |-> timeout]

\* Two commands of a configuration: one with two arguments to ask for and a
\* third with a default, one whose only argument has a default.
DeployCommand ==
  YAMLCommand("deploy",
              <<ArgumentDef("env", TRUE, "choice", <<S_prod, S_dev>>, S_empty),
                ArgumentDef("ver", FALSE, "int", <<>>, S_empty),
                ArgumentDef("model", FALSE, "string", <<>>, S_gpt)>>,
              0)

StatusCommand ==
  YAMLCommand("status", <<ArgumentDef("fmt", FALSE, "string", <<>>, S_txt)>>, 2)

LoadedCommands == {DeployCommand, StatusCommand}

\* The texts the chats send.
Inputs == {S_empty, S_space, S_5, S_prod}

\* Argument lists for StartSession alone: up to MaxArgs arguments, names
\* that repeat, with and without default, required or not.
WideArgumentDefs ==
  {ArgumentDef(n, r, "string", <<>>, d) :
     n \in {"env", "ver"}, r \in BOOLEAN, d \in {S_empty, S_gpt, S_txt}}

WideCommandSet ==
  {YAMLCommand("wide", args, 0) :
     args \in UNION {[1..n -> WideArgumentDefs] : n \in 0..MaxArgs}}

\* validateArgument and the session timeout through StartSession and
\* ProcessInput: a command with one argument to ask for, of any kind
\* (also none and one the switch does not know), required or not, with or
\* without choices, and an argument_timeout that is negative, zero or
\* positive; the loader checks none of these.
ValidateArgumentDefs ==
  {ArgumentDef("arg", r, t, <<>>, S_empty) :
     r \in BOOLEAN, t \in {"string", "int", "bool", "choice", "", "float"}}
  \cup
  {ArgumentDef("arg", r, "choice", <<S_prod, S_dev>>, S_empty) : r \in BOOLEAN}

TimeoutInputs == {-1, 0, 2}

ValidateCommandSet ==
  {YAMLCommand("ask", <<a>>, t) : a \in ValidateArgumentDefs, t \in TimeoutInputs}

\* Texts for validateArgument: empty, blank, numbers and near numbers,
\* choices in both cases, boolean words with capitals and blanks around.
WideInputs ==
  {S_empty, S_space, <<" ", "\t">>, S_5, <<"-", "5">>, <<"5", "x">>,
   S_prod, <<"P", "r", "o", "d">>, <<"Y", "e", "s">>, <<" ", "n", "o", " ">>}

\* The nil *ArgumentSession.  The fields sid (the identity of the object) and
\* accepted (the inputs stored so far, in order) are history.
NilSession ==
  [sid |-> 0, ChatID |-> 0, Command |-> "", Arguments |-> <<>>, Collected |-> <<>>,
   CurrentIdx |-> 0, StartedAt |-> ZeroTime, TimeoutDur |-> 0, accepted |-> <<>>]

NoRet == [op |-> "", chat |-> 0, msg |-> "", sid |-> 0]

NoLocal == [chatID |-> 0, sid |-> 0, cmd |-> "", collected |-> <<>>]

\* No message: the empty text, and nil for currentArg (an argument is the
\* index it has in the list to ask for).
NoIn == [text |-> S_empty, currentArg |-> 0]

\* m[key] of a Go map: the zero value for a missing key.
Lookup(m, chatID) == IF chatID \in DOMAIN m THEN m[chatID] ELSE NilSession

\* Mutant: delete leaves the map as it is.
DeleteNothing(m, chatID) == m

\* delete(m, key)
Delete(m, chatID) == [k \in DOMAIN m \ {chatID} |-> m[k]]

\* m[key] = v
Put(m, key, v) == [k \in DOMAIN m \cup {key} |-> IF k = key THEN v ELSE m[k]]

CurrentArg(session) ==
  IF session.CurrentIdx >= Len(session.Arguments) THEN 0 ELSE session.CurrentIdx + 1

IsComplete(session) == session.CurrentIdx >= Len(session.Arguments)

\* Mutant: no session ever expires.
IsExpiredNever(session, t) == FALSE

\* Mutant: a session is expired as soon as its timeout has elapsed.
IsExpiredAtTimeout(session, t) == t - session.StartedAt >= session.TimeoutDur

\* "time.Since(s.StartedAt) > s.TimeoutDur"
IsExpired(session, t) == t - session.StartedAt > session.TimeoutDur

\* ---- strings
IsSpace(c) == c \in {" ", "\t", "\n"}

RECURSIVE TrimLeft(_)
TrimLeft(str) ==
  IF Len(str) > 0 /\ IsSpace(Head(str)) THEN TrimLeft(Tail(str)) ELSE str

RECURSIVE TrimRight(_)
TrimRight(str) ==
  IF Len(str) > 0 /\ IsSpace(str[Len(str)])
  THEN TrimRight(SubSeq(str, 1, Len(str) - 1)) ELSE str

\* strings.TrimSpace
TrimSpace(str) == TrimRight(TrimLeft(str))

\* strings.ToLower, for the letters of the texts
LowerOf(c) ==
  CASE c = "Y" -> "y" [] c = "E" -> "e" [] c = "S" -> "s" [] c = "N" -> "n"
    [] c = "O" -> "o" [] c = "T" -> "t" [] c = "R" -> "r" [] c = "U" -> "u"
    [] c = "F" -> "f" [] c = "A" -> "a" [] c = "L" -> "l" [] c = "P" -> "p"
    [] c = "D" -> "d" [] OTHER -> c

ToLower(str) == [k \in DOMAIN str |-> LowerOf(str[k])]

IsDigit(c) == c \in {"0", "1", "2", "3", "4", "5", "6", "7", "8", "9"}

\* strconv.Atoi succeeds: an optional sign, then digits only, at least one
\* (the texts are too short to overflow an int).
AtoiOk(str) ==
  LET digits == IF Len(str) > 0 /\ str[1] \in {"+", "-"} THEN Tail(str) ELSE str
  IN  Len(digits) > 0 /\ \A k \in DOMAIN digits : IsDigit(digits[k])

BoolWords ==
  {<<"t", "r", "u", "e">>, <<"f", "a", "l", "s", "e">>, <<"y", "e", "s">>,
   <<"n", "o">>, <<"1">>, <<"0">>}

Contains(list, str) == \E k \in DOMAIN list : list[k] = str

\* Mutant: the check of the kind comes before the general rule.
validateArgumentKindFirst(arg, input) ==
  IF arg.Type = "int" /\ ~AtoiOk(input) THEN "Please enter a valid integer"
  ELSE IF arg.Type = "bool" /\ ToLower(TrimSpace(input)) \notin BoolWords
       THEN "Please enter yes/no, true/false, or 1/0"
  ELSE IF arg.Type = "choice" /\ Len(arg.Choices) > 0 /\ ~Contains(arg.Choices, input)
       THEN "Please select one of"
  ELSE IF arg.Required /\ TrimSpace(input) = S_empty THEN "This field is required"
  ELSE ""

\* validateArgument: the message of the error, "" for nil.
validateArgument(arg, input) ==
  IF arg.Required /\ TrimSpace(input) = S_empty THEN "This field is required"
  ELSE IF input = S_empty THEN ""
  ELSE IF arg.Type = "int"
       THEN (IF ~AtoiOk(input) THEN "Please enter a valid integer" ELSE "")
  ELSE IF arg.Type = "bool"
       THEN (IF ToLower(TrimSpace(input)) \notin BoolWords
             THEN "Please enter yes/no, true/false, or 1/0" ELSE "")
  ELSE IF arg.Type = "choice"
       THEN (IF Len(arg.Choices) > 0 /\ ~Contains(arg.Choices, input)
             THEN "Please select one of" ELSE "")
  ELSE ""

\* ---- StartSession
\* Mutant: every argument with a default is resolved, required or not.
UsesDefaultAlways(arg) == arg.Default # S_empty

\* "if arg.Default != "" && !arg.Required"
UsesDefault(arg) == arg.Default # S_empty /\ ~arg.Required

\* toPrompt after the first k arguments
RECURSIVE ToPrompt(_, _)
ToPrompt(args, k) ==
  IF k = 0 THEN <<>>
  ELSE IF UsesDefault(args[k]) THEN ToPrompt(args, k - 1)
  ELSE Append(ToPrompt(args, k - 1), args[k])

\* collected after the first k arguments
RECURSIVE Defaults(_, _)
Defaults(args, k) ==
  IF k = 0 THEN <<>>
  ELSE IF UsesDefault(args[k])
       THEN Put(Defaults(args, k - 1), args[k].Name, args[k].Default)
       ELSE Defaults(args, k - 1)

\* "timeout := cmd.ArgumentTimeout(); if timeout == 0 { timeout = c.defaultTimeout }"
SessionTimeout(c) ==
  IF c.ArgumentTimeout = 0 THEN defaultArgumentTimeout ELSE c.ArgumentTimeout

NewSession(chatID, c, t, sid) ==
  [sid |-> sid, ChatID |-> chatID, Command |-> c.Name,
   Arguments |-> ToPrompt(c.Arguments, Len(c.Arguments)),
   Collected |-> Defaults(c.Arguments, Len(c.Arguments)),
   CurrentIdx |-> 0, StartedAt |-> t, TimeoutDur |-> SessionTimeout(c),
   accepted |-> <<>>]

\* Mutant: a session that is already there is kept.
SessionsAfterStartKeep(m, chatID, session) ==
  IF chatID \in DOMAIN m THEN m ELSE Put(m, chatID, session)

\* "delete(c.sessions, chatID)" ... "c.sessions[chatID] = session"
SessionsAfterStart(m, chatID, session) == Put(Delete(m, chatID), chatID, session)

StartSession(chatID, c) ==
  /\ nextSid <= MaxSessions
  /\ LET session == NewSession(chatID, c, now, nextSid)
     IN  /\ sessions' = SessionsAfterStart(sessions, chatID, session)
         /\ ret' = [op |-> "StartSession", chat |-> chatID, msg |-> "",
                    sid |-> Lookup(sessions', chatID).sid]
  /\ nextSid' = nextSid + 1
  /\ discarded' = IF Len(Lookup(sessions, chatID).accepted) > 0
                  THEN discarded \cup {Lookup(sessions, chatID).sid} ELSE discarded
  /\ UNCHANGED <<yamlCommands, hpc, hlocal, completed, executed, now, nonSessVars>>

\* ---- GetSession, CancelSession, CleanupExpiredSessions
GetSession(chatID) ==
  /\ LET session == Lookup(sessions, chatID)
     IN  ret' = [op |-> "GetSession", chat |-> chatID, msg |-> "",
                 sid |-> IF session.sid # 0 /\ IsExpired(session, now)
                         THEN 0 ELSE session.sid]
  /\ UNCHANGED <<yamlCommands, sessions, nextSid, hpc, hlocal, completed, executed,
                 discarded, now, nonSessVars>>

\* Mutant: the session stays in the map.
CancelSessionKeep(chatID) ==
  /\ ret' = [op |-> "CancelSession", chat |-> chatID, msg |-> "", sid |-> 0]
  /\ UNCHANGED <<yamlCommands, sessions, nextSid, hpc, hlocal, completed, executed,
                 discarded, now, nonSessVars>>

CancelSession(chatID) ==
  /\ sessions' = Delete(sessions, chatID)
  /\ ret' = [op |-> "CancelSession", chat |-> chatID, msg |-> "", sid |-> 0]
  /\ UNCHANGED <<yamlCommands, nextSid, hpc, hlocal, completed, executed, discarded, now, nonSessVars>>

CleanupExpiredSessions ==
  /\ \E k \in DOMAIN sessions : IsExpired(sessions[k], now)
  /\ sessions' = [k \in {j \in DOMAIN sessions : ~IsExpired(sessions[j], now)} |-> sessions[k]]
  /\ ret' = [op |-> "CleanupExpiredSessions", chat |-> 0, msg |-> "", sid |-> 0]
  /\ UNCHANGED <<yamlCommands, nextSid, hpc, hlocal, completed, executed, discarded, now, nonSessVars>>

\* ---- ProcessInput
\* Mutant: the cursor moves on, the value is not stored.
StoredCursorOnly(session, input) ==
  [session EXCEPT !.CurrentIdx = @ + 1, !.accepted = Append(@, input)]

\* "session.Collected[arg.Name] = input; session.CurrentIdx++"
Stored(session, input) ==
  [session EXCEPT !.Collected = Put(@, session.Arguments[CurrentArg(session)].Name, input),
                  !.CurrentIdx = @ + 1,
                  !.accepted = Append(@, input)]

\* Mutant: the input is stored before it is validated.
AfterInputStoreFirst(session, input) ==
  LET msg == validateArgument(session.Arguments[CurrentArg(session)], input)
  IN  [session |-> IF msg # ""
                   THEN [session EXCEPT
                           !.Collected = Put(@, session.Arguments[CurrentArg(session)].Name, input)]
                   ELSE Stored(session, input),
       msg |-> msg]

\* Mutant: the cursor stays where it is.
AfterInputNoAdvance(session, input) ==
  LET msg == validateArgument(session.Arguments[CurrentArg(session)], input)
  IN  [session |-> IF msg # "" THEN session
                   ELSE [Stored(session, input) EXCEPT !.CurrentIdx = session.CurrentIdx],
       msg |-> msg]

\* ProcessInput from "Validate input" on, for a session with a current
\* argument: the session afterwards and the message returned.
AfterInput(session, input) ==
  LET msg == validateArgument(session.Arguments[CurrentArg(session)], input)
  IN  [session |-> IF msg # "" THEN session ELSE Stored(session, input), msg |-> msg]

ProcessInput(chatID, input) ==
  /\ LET session == Lookup(sessions, chatID)
     IN  IF session.sid = 0 \/ IsExpired(session, now)
         THEN /\ ret' = [op |-> "ProcessInput", chat |-> chatID,
                         msg |-> "No active argument collection session.", sid |-> 0]
              /\ UNCHANGED sessions
         ELSE IF CurrentArg(session) = 0
         THEN /\ ret' = [op |-> "ProcessInput", chat |-> chatID, msg |-> "", sid |-> session.sid]
              /\ UNCHANGED sessions
         ELSE LET r == AfterInput(session, input)
              IN  /\ sessions' = Put(sessions, chatID, r.session)
                  /\ ret' = [op |-> "ProcessInput", chat |-> chatID, msg |-> r.msg,
                             sid |-> session.sid]
  /\ UNCHANGED <<yamlCommands, nextSid, hpc, hlocal, completed, executed, discarded, now, nonSessVars>>

\* ---- executeWithArguments
\* Its call of CompleteSession and the test "if cmd == nil { return }".
executeWithArguments(h, chatID) ==
  /\ hpc[h] = "idle"
  /\ LET session == Lookup(sessions, chatID)
     IN  IF session.sid = 0
         THEN /\ ret' = [op |-> "CompleteSession", chat |-> chatID, msg |-> "", sid |-> 0]
              /\ UNCHANGED <<sessions, hpc, hlocal, completed>>
         ELSE /\ sessions' = Delete(sessions, chatID)
              /\ ret' = [op |-> "CompleteSession", chat |-> chatID, msg |-> "",
                         sid |-> session.sid]
              /\ hlocal' = [hlocal EXCEPT ![h] = [chatID |-> chatID, sid |-> session.sid,
                                                   cmd |-> session.Command,
                                                   collected |-> session.Collected]]
              /\ hpc' = [hpc EXCEPT ![h] = "render"]
              /\ completed' = [completed EXCEPT ![session.sid] = @ + 1]
  /\ UNCHANGED <<yamlCommands, nextSid, executed, discarded, now, nonSessVars>>

\* The rest of executeWithArguments: RenderCommand fails, or the rendered
\* command is run or handed to the confirmation manager.
executeRenderedCommand(h, renderOk) ==
  /\ hpc[h] = "render"
  /\ renderOk \in BOOLEAN
  /\ executed' = IF renderOk THEN [executed EXCEPT ![hlocal[h].sid] = @ + 1] ELSE executed
  /\ hpc' = [hpc EXCEPT ![h] = "idle"]
  /\ hlocal' = [hlocal EXCEPT ![h] = NoLocal]
  /\ UNCHANGED <<yamlCommands, sessions, nextSid, ret, completed, discarded, now, nonSessVars>>

\* ---- the update handlers, step by step
\* Each handler is a goroutine of its own ("go b.handle..." in Bot.Run).  A
\* method of the ArgumentCollector runs with c.mu locked and is one step,
\* except ProcessInput, which is two: "session.Collected[arg.Name] = input"
\* and "session.CurrentIdx++".  What a handler reads through the pointer
\* GetSession or StartSession returned, it reads without the lock.

\* A handler has dereferenced nil: the process is gone.
Crashed == \E h \in Handlers : hpc[h] = "panic"

\* The ArgumentSession object of an identity, in the map or not.
Obj(sid) ==
  IF \E k \in DOMAIN sessions : sessions[k].sid = sid
  THEN sessions[CHOOSE k \in DOMAIN sessions : sessions[k].sid = sid]
  ELSE retired[sid]

\* The objects out of the map once the chat's entry is deleted or replaced.
Retire(chatID) ==
  IF chatID \in DOMAIN sessions
  THEN [retired EXCEPT ![sessions[chatID].sid] = sessions[chatID]]
  ELSE retired

\* Another handler is between the two writes of ProcessInput to the object.
BeingWritten(h, sid) ==
  /\ mu \notin {"", h}
  /\ Lookup(sessions, hlocal[mu].chatID).sid = sid

\* Handler h reads CurrentIdx of the object without the lock.
TornAfterRead(h, sid) == IF BeingWritten(h, sid) THEN torn \cup {h} ELSE torn

Local(chatID, sid) == [chatID |-> chatID, sid |-> sid, cmd |-> "", collected |-> <<>>]

\* The session GetSession returns for the chat (NilSession for nil).
LiveSession(chatID) ==
  IF Lookup(sessions, chatID).sid # 0 /\ ~IsExpired(Lookup(sessions, chatID), now)
  THEN Lookup(sessions, chatID) ELSE NilSession

\* Bot.Run, a text message: "if b.argCollector.HasSession(chatID) { go
\* b.handleArgumentInput(ctx, update.Message) }"
DispatchText(h, chatID, input) ==
  /\ ~Crashed
  /\ hpc[h] = "idle"
  /\ mu = ""
  /\ LiveSession(chatID).sid # 0
  /\ hpc' = [hpc EXCEPT ![h] = "in_get"]
  /\ hlocal' = [hlocal EXCEPT ![h] = Local(chatID, 0)]
  /\ hin' = [hin EXCEPT ![h] = [text |-> input, currentArg |-> 0]]
  /\ UNCHANGED <<yamlCommands, ret, sessions, nextSid, completed, executed, discarded,
                 mu, retired, torn, now, outsideVars>>

\* handleArgumentInput: "session := b.argCollector.GetSession(chatID); if
\* session == nil { return }"
InputGetSession(h) ==
  /\ ~Crashed
  /\ hpc[h] = "in_get"
  /\ mu = ""
  /\ LET session == LiveSession(hlocal[h].chatID)
     IN  /\ IF session.sid = 0
            THEN /\ hpc' = [hpc EXCEPT ![h] = "idle"]
                 /\ hlocal' = [hlocal EXCEPT ![h] = NoLocal]
                 /\ hin' = [hin EXCEPT ![h] = NoIn]
            ELSE /\ hpc' = [hpc EXCEPT ![h] = "in_expired"]
                 /\ hlocal' = [hlocal EXCEPT ![h].sid = session.sid]
                 /\ UNCHANGED hin
  /\ UNCHANGED <<yamlCommands, ret, sessions, nextSid, completed, executed, discarded,
                 mu, retired, torn, now, outsideVars>>

\* "if session.IsExpired() { b.argCollector.CancelSession(chatID) ... return }"
InputIsExpired(h) ==
  /\ ~Crashed
  /\ hpc[h] = "in_expired"
  /\ hpc' = [hpc EXCEPT ![h] = IF IsExpired(Obj(hlocal[h].sid), now)
                                THEN "cancel" ELSE "in_curarg"]
  /\ UNCHANGED <<yamlCommands, sessions, nextSid, ret, hlocal, completed, executed,
                 discarded, mu, retired, torn, hin, now, outsideVars>>

\* "currentArg := session.CurrentArg()"
InputCurrentArg(h) ==
  /\ ~Crashed
  /\ hpc[h] = "in_curarg"
  /\ torn' = TornAfterRead(h, hlocal[h].sid)
  /\ hin' = [hin EXCEPT ![h].currentArg = CurrentArg(Obj(hlocal[h].sid))]
  /\ hpc' = [hpc EXCEPT ![h] = "in_process"]
  /\ UNCHANGED <<yamlCommands, sessions, nextSid, ret, hlocal, completed, executed,
                 discarded, mu, retired, now, outsideVars>>

\* "errMsg := b.argCollector.ProcessInput(chatID, msg.Text)" up to the first
\* write, and "if errMsg != "" { ... currentArg.Description ... return }"
\* when it returns before.
InputProcessInput(h) ==
  /\ ~Crashed
  /\ hpc[h] = "in_process"
  /\ mu = ""
  /\ LET chatID == hlocal[h].chatID
         session == Lookup(sessions, chatID)
         failedTo == IF hin[h].currentArg = 0 THEN "panic" ELSE "idle"
     IN  IF session.sid = 0 \/ IsExpired(session, now)
         THEN /\ hpc' = [hpc EXCEPT ![h] = failedTo]
              /\ hlocal' = [hlocal EXCEPT ![h] = NoLocal]
              /\ hin' = [hin EXCEPT ![h] = NoIn]
              /\ UNCHANGED <<sessions, mu>>
         ELSE IF CurrentArg(session) = 0
         THEN /\ hpc' = [hpc EXCEPT ![h] = "in_get2"]
              /\ hin' = [hin EXCEPT ![h] = NoIn]
              /\ UNCHANGED <<sessions, mu, hlocal>>
         ELSE IF validateArgument(session.Arguments[CurrentArg(session)], hin[h].text) # ""
         THEN /\ hpc' = [hpc EXCEPT ![h] = failedTo]
              /\ hlocal' = [hlocal EXCEPT ![h] = NoLocal]
              /\ hin' = [hin EXCEPT ![h] = NoIn]
              /\ UNCHANGED <<sessions, mu>>
         ELSE /\ sessions' = Put(sessions, chatID,
                                 [session EXCEPT !.Collected =
                                    Put(@, session.Arguments[CurrentArg(session)].Name,
                                        hin[h].text)])
              /\ mu' = h
              /\ hpc' = [hpc EXCEPT ![h] = "in_incr"]
              /\ UNCHANGED <<hlocal, hin>>
  /\ UNCHANGED <<yamlCommands, ret, nextSid, completed, executed, discarded, retired, torn,
                 now, outsideVars>>

\* "session.CurrentIdx++; return """, and the lock is released.
InputIncrement(h) ==
  /\ ~Crashed
  /\ hpc[h] = "in_incr"
  /\ mu = h
  /\ LET chatID == hlocal[h].chatID
         session == sessions[chatID]
     IN  /\ sessions' = Put(sessions, chatID,
                            [session EXCEPT !.CurrentIdx = @ + 1,
                                            !.accepted = Append(@, hin[h].text)])
  /\ mu' = ""
  /\ hpc' = [hpc EXCEPT ![h] = "in_get2"]
  /\ hin' = [hin EXCEPT ![h] = NoIn]
  /\ UNCHANGED <<yamlCommands, ret, nextSid, hlocal, completed, executed, discarded, retired,
                 torn, now, outsideVars>>

\* "session = b.argCollector.GetSession(chatID)", "if session == nil"
InputGetSession2(h) ==
  /\ ~Crashed
  /\ hpc[h] = "in_get2"
  /\ mu = ""
  /\ LET session == LiveSession(hlocal[h].chatID)
     IN  /\ hlocal' = [hlocal EXCEPT ![h].sid = session.sid]
         /\ hpc' = [hpc EXCEPT ![h] = IF session.sid = 0 THEN "exec" ELSE "in_complete"]
  /\ UNCHANGED <<yamlCommands, ret, sessions, nextSid, completed, executed, discarded,
                 mu, retired, torn, hin, now, outsideVars>>

\* "|| session.IsComplete() { b.executeWithArguments(ctx, chatID); return }",
\* else "b.promptNextArgument(chatID, session)"
InputIsComplete(h) ==
  /\ ~Crashed
  /\ hpc[h] = "in_complete"
  /\ torn' = TornAfterRead(h, hlocal[h].sid)
  /\ hpc' = [hpc EXCEPT ![h] = IF IsComplete(Obj(hlocal[h].sid)) THEN "exec" ELSE "prompt"]
  /\ UNCHANGED <<yamlCommands, sessions, nextSid, ret, hlocal, completed, executed,
                 discarded, mu, retired, hin, now, outsideVars>>

\* promptNextArgument: "arg := session.CurrentArg(); if arg == nil { return }"
PromptCurrentArg(h) ==
  /\ ~Crashed
  /\ hpc[h] = "prompt"
  /\ torn' = TornAfterRead(h, hlocal[h].sid)
  /\ IF CurrentArg(Obj(hlocal[h].sid)) = 0
     THEN /\ hpc' = [hpc EXCEPT ![h] = "idle"]
          /\ hlocal' = [hlocal EXCEPT ![h] = NoLocal]
     ELSE /\ hpc' = [hpc EXCEPT ![h] = "setmsg"]
          /\ UNCHANGED hlocal
  /\ UNCHANGED <<yamlCommands, sessions, nextSid, ret, completed, executed,
                 discarded, mu, retired, hin, now, outsideVars>>

\* promptNextArgument: the prompt is sent and SetLastPromptMsgID takes the
\* lock (the field LastPromptMsgID is not represented).
PromptSetLastMsg(h) ==
  /\ ~Crashed
  /\ hpc[h] = "setmsg"
  /\ mu = ""
  /\ hpc' = [hpc EXCEPT ![h] = "idle"]
  /\ hlocal' = [hlocal EXCEPT ![h] = NoLocal]
  /\ UNCHANGED <<yamlCommands, sessions, nextSid, ret, completed, executed,
                 discarded, mu, retired, torn, hin, now, outsideVars>>

\* executeWithArguments at the end of a handler: CompleteSession and
\* "if cmd == nil { return }"
HandlerComplete(h) ==
  /\ ~Crashed
  /\ hpc[h] = "exec"
  /\ mu = ""
  /\ LET chatID == hlocal[h].chatID
         session == Lookup(sessions, chatID)
     IN  /\ sessions' = Delete(sessions, chatID)
         /\ retired' = Retire(chatID)
         /\ IF session.sid = 0
            THEN /\ hpc' = [hpc EXCEPT ![h] = "idle"]
                 /\ hlocal' = [hlocal EXCEPT ![h] = NoLocal]
                 /\ UNCHANGED completed
            ELSE /\ hpc' = [hpc EXCEPT ![h] = "render"]
                 /\ hlocal' = [hlocal EXCEPT ![h] = [chatID |-> chatID, sid |-> session.sid,
                                                      cmd |-> session.Command,
                                                      collected |-> session.Collected]]
                 /\ completed' = [completed EXCEPT ![session.sid] = @ + 1]
  /\ UNCHANGED <<yamlCommands, ret, nextSid, executed, discarded, mu, torn, hin, now,
                 outsideVars>>

\* handleCommand and the menu callback for a command with arguments:
\* "session := b.argCollector.StartSession(chatID, yamlCmd)"
StartCommand(h, chatID, c) ==
  /\ ~Crashed
  /\ hpc[h] = "idle"
  /\ mu = ""
  /\ nextSid <= MaxSessions
  /\ sessions' = SessionsAfterStart(sessions, chatID, NewSession(chatID, c, now, nextSid))
  /\ retired' = Retire(chatID)
  /\ nextSid' = nextSid + 1
  /\ discarded' = IF Len(Lookup(sessions, chatID).accepted) > 0
                  THEN discarded \cup {Lookup(sessions, chatID).sid} ELSE discarded
  /\ hlocal' = [hlocal EXCEPT ![h] = Local(chatID, nextSid)]
  /\ hpc' = [hpc EXCEPT ![h] = "st_complete"]
  /\ UNCHANGED <<yamlCommands, ret, completed, executed, mu, torn, hin, now, outsideVars>>

\* "if session != nil && !session.IsComplete() { b.promptNextArgument(chatID,
\* session); return }", else "b.executeWithArguments(ctx, chatID)"
StartIsComplete(h) ==
  /\ ~Crashed
  /\ hpc[h] = "st_complete"
  /\ torn' = TornAfterRead(h, hlocal[h].sid)
  /\ hpc' = [hpc EXCEPT ![h] = IF IsComplete(Obj(hlocal[h].sid)) THEN "exec" ELSE "prompt"]
  /\ UNCHANGED <<yamlCommands, sessions, nextSid, ret, hlocal, completed, executed,
                 discarded, mu, retired, hin, now, outsideVars>>

\* Bot.Run, the command /cancel: "go b.handleCancelCommand(update.Message)"
DispatchCancel(h, chatID) ==
  /\ ~Crashed
  /\ hpc[h] = "idle"
  /\ hpc' = [hpc EXCEPT ![h] = "c_has"]
  /\ hlocal' = [hlocal EXCEPT ![h] = Local(chatID, 0)]
  /\ UNCHANGED <<yamlCommands, sessions, nextSid, ret, completed, executed,
                 discarded, mu, retired, torn, hin, now, outsideVars>>

\* handleCancelCommand: "if b.argCollector.HasSession(chatID)"
CancelHasSession(h) ==
  /\ ~Crashed
  /\ hpc[h] = "c_has"
  /\ mu = ""
  /\ IF LiveSession(hlocal[h].chatID).sid # 0
     THEN /\ hpc' = [hpc EXCEPT ![h] = "cancel"]
          /\ UNCHANGED hlocal
     ELSE /\ hpc' = [hpc EXCEPT ![h] = "idle"]
          /\ hlocal' = [hlocal EXCEPT ![h] = NoLocal]
  /\ UNCHANGED <<yamlCommands, ret, sessions, nextSid, completed, executed, discarded,
                 mu, retired, torn, hin, now, outsideVars>>

\* "b.argCollector.CancelSession(chatID)" of handleCancelCommand and of
\* handleArgumentInput
HandlerCancelSession(h) ==
  /\ ~Crashed
  /\ hpc[h] = "cancel"
  /\ mu = ""
  /\ sessions' = Delete(sessions, hlocal[h].chatID)
  /\ retired' = Retire(hlocal[h].chatID)
  /\ hpc' = [hpc EXCEPT ![h] = "idle"]
  /\ hlocal' = [hlocal EXCEPT ![h] = NoLocal]
  /\ hin' = [hin EXCEPT ![h] = NoIn]
  /\ UNCHANGED <<yamlCommands, ret, nextSid, completed, executed, discarded, mu, torn, now,
                 outsideVars>>

\* ------------------------------------------------- ConfirmationManager
\* A callback's data: a prefix and what follows it.  id 0 is the empty rest,
\* for which "len(callbackData) > len(prefix)" is false.
CallbackPrefixes == {callbackConfirm, callbackCancel, "menu:"}
ConfirmIDs == 1..MaxConfirm

\* The switch of HandleCallback: the id and confirmed, or kind "" for the
\* default case.
ParseCallback(prefix, id) ==
  IF prefix = callbackConfirm /\ id # 0 THEN [kind |-> "id", id |-> id, confirmed |-> TRUE]
  ELSE IF prefix = callbackCancel /\ id # 0 THEN [kind |-> "id", id |-> id, confirmed |-> FALSE]
  ELSE [kind |-> "", id |-> 0, confirmed |-> FALSE]

\* No call in progress.
NoCallback == [pc |-> "idle", id |-> 0, confirmed |-> FALSE, ok |-> FALSE, ExpiresAt |-> ZeroTime]

ConfirmIdle ==
  /\ pending = <<>>
  /\ nextConfirm = 1
  /\ conf = [id \in ConfirmIDs |-> ""]
  /\ cb = [h \in Handlers |-> NoCallback]
  /\ granted = [id \in ConfirmIDs |-> 0]
  /\ cancelSeen = {}

\* RequestConfirmation up to "sent, err := api.Send(msg)": generateID (ids
\* do not repeat) and the message with the two buttons for the id, which the
\* chat has from now on, or "return err".
RequestConfirmationSend(sendOk) ==
  /\ nextConfirm <= MaxConfirm
  /\ sendOk \in BOOLEAN
  /\ nextConfirm' = nextConfirm + 1
  /\ conf' = [conf EXCEPT ![nextConfirm] = IF sendOk THEN "sent" ELSE "failed"]
  /\ UNCHANGED <<pending, cb, granted, cancelSeen, schedVars, parseVars, sessVars, lockVars, firedVars>>

\* The rest of RequestConfirmation: the entry is stored with its expiry.
RequestConfirmationStore(id) ==
  /\ id \in ConfirmIDs
  /\ conf[id] = "sent"
  /\ conf' = [conf EXCEPT ![id] = "stored"]
  /\ pending' = Put(pending, id, [ExpiresAt |-> now + confirmationTTL])
  /\ UNCHANGED <<nextConfirm, cb, granted, cancelSeen, schedVars, parseVars, sessVars, lockVars, firedVars>>

\* Mutant: the entry is looked up and left in the map.
PendingAfterLookupKept(p, id) == p

\* "if ok { delete(cm.pending, id) }"
PendingAfterLookup(p, id) == Delete(p, id)

\* Mutant: the expiry is not looked at.
ExpiredNever(t, expiresAt) == FALSE

\* "time.Now().After(pending.ExpiresAt)"
Expired(t, expiresAt) == t > expiresAt

\* HandleCallback up to "cm.mu.Unlock()": the switch on the data and, unless
\* it is the default case, the locked lookup and delete.  The data is that of
\* a button the chat has, or any other.
HandleCallbackLookup(h, prefix, id) ==
  /\ cb[h].pc = "idle"
  /\ id = 0 \/ (id \in ConfirmIDs /\ conf[id] \in {"sent", "stored"})
  /\ LET c == ParseCallback(prefix, id)
         ok == c.kind # "" /\ c.id \in DOMAIN pending
     IN  /\ cb' = [cb EXCEPT ![h] = [pc |-> "check", id |-> c.id, confirmed |-> c.confirmed,
                                      ok |-> ok,
                                      ExpiresAt |-> IF ok THEN pending[c.id].ExpiresAt
                                                    ELSE ZeroTime]]
         /\ pending' = IF c.kind # "" THEN PendingAfterLookup(pending, c.id) ELSE pending
         /\ cancelSeen' = IF c.kind # "" /\ ~c.confirmed THEN cancelSeen \cup {c.id}
                          ELSE cancelSeen
  /\ UNCHANGED <<nextConfirm, conf, granted, schedVars, parseVars, sessVars, lockVars, firedVars>>

\* What HandleCallback returns after the unlock: (pending, true) or
\* (nil, false).
Confirmed(c, t) == c.ok /\ ~Expired(t, c.ExpiresAt) /\ c.confirmed

\* The rest of HandleCallback: "if !ok || time.Now().After(pending.ExpiresAt)",
\* "if !confirmed", "return pending, true".
HandleCallbackReturn(h) ==
  /\ cb[h].pc = "check"
  /\ granted' = IF Confirmed(cb[h], now) THEN [granted EXCEPT ![cb[h].id] = @ + 1]
                ELSE granted
  /\ cb' = [cb EXCEPT ![h] = NoCallback]
  /\ UNCHANGED <<pending, nextConfirm, conf, cancelSeen, schedVars, parseVars, sessVars, lockVars, firedVars>>

\* One tick of cleanupLoop that finds something to delete.
cleanupLoop ==
  /\ \E id \in DOMAIN pending : now > pending[id].ExpiresAt
  /\ pending' = [id \in {j \in DOMAIN pending : ~(now > pending[j].ExpiresAt)} |-> pending[id]]
  /\ UNCHANGED <<nextConfirm, conf, cb, granted, cancelSeen, schedVars, parseVars, sessVars, lockVars, firedVars>>

\* NewArgumentCollector, with no update being handled.
SessIdle ==
  /\ yamlCommands = {}
  /\ sessions = <<>>
  /\ nextSid = 1
  /\ ret = NoRet
  /\ hpc = [h \in Handlers |-> "idle"]
  /\ hlocal = [h \in Handlers |-> NoLocal]
  /\ mu = ""
  /\ retired = [i \in 1..MaxSessions |-> NilSession]
  /\ torn = {}
  /\ hin = [h \in Handlers |-> NoIn]
  /\ completed = [i \in 1..MaxSessions |-> 0]
  /\ executed = [i \in 1..MaxSessions |-> 0]
  /\ discarded = {}

\* ---------------------------------------------------------- specification
\* The state New returns, with Run about to start.
Init ==
  /\ commands = <<>>
  /\ paused = {}
  /\ wakeup = 0
  /\ now = 1
  /\ cancelled = FALSE
  /\ pc = "compute"
  /\ nextTime = ZeroTime
  /\ cmd = NoCmd
  /\ chatIdx = 1
  /\ dirty = FALSE
  /\ owed = {}
  /\ result = ""
  /\ calls = <<>>
  /\ failed = FALSE
  /\ smu = ""
  /\ fired = {}
  /\ cycleAt = [n \in Names |-> ZeroTime]
  /\ cycleLate = {}
  /\ ConfirmIdle
  /\ ParseIdle
  /\ SessIdle

LoopStep ==
  \/ Compute
  \/ RecvDone
  \/ RecvWakeup
  \/ RecvTimer
  \/ FireStart
  \/ \E err \in BOOLEAN : ExecuteScheduled(err)

Next ==
  \/ \E n \in Names, f \in BOOLEAN : SetPaused(n, f)
  \/ \E new \in ReloadInputs : UpdateCommands(new)
  \/ LoopStep
  \/ Tick
  \/ Cancel

Spec == Init /\ [][Next]_vars

\* The Scheduler lock by lock: the same callers, loop and environment.
LockLoopStep ==
  \/ ComputeRLock
  \/ ComputeRUnlock
  \/ RecvDone
  \/ RecvWakeup
  \/ RecvTimer
  \/ FireLock
  \/ FireUnlock
  \/ FireUnlocked
  \/ \E err \in BOOLEAN : ExecuteScheduled(err)

NextLock ==
  \/ \E n \in Names, f \in BOOLEAN : SetPausedLocked(n, f)
  \/ \E new \in ReloadInputs : UpdateCommandsLocked(new)
  \/ UnlockAndSignal
  \/ LockLoopStep
  \/ Tick
  \/ Cancel

SpecLock == Init /\ [][NextLock]_vars

\* The Scheduler with the fired occurrences recorded.
FiredLoopStep ==
  \/ Compute
  \/ RecvDone
  \/ RecvWakeup
  \/ RecvTimerRecorded
  \/ FireStart
  \/ \E err \in BOOLEAN : ExecuteScheduled(err)

NextFired ==
  \/ \E n \in Names, f \in BOOLEAN : SetPaused(n, f)
  \/ \E new \in ReloadInputs : UpdateCommands(new)
  \/ FiredLoopStep
  \/ Tick
  \/ Cancel

SpecFired == Init /\ [][NextFired]_vars

\* The Scheduler with the start of the interval cycles recorded.
CyclesLoopStep ==
  \/ Compute
  \/ RecvDone
  \/ RecvWakeup
  \/ RecvTimer
  \/ FireStartRecorded
  \/ \E err \in BOOLEAN : ExecuteScheduled(err)

NextCycles ==
  \/ \E n \in Names, f \in BOOLEAN : SetPaused(n, f)
  \/ \E new \in ReloadInputs : UpdateCommandsRecorded(new)
  \/ CyclesLoopStep
  \/ Tick
  \/ Cancel

SpecCycles == Init /\ [][NextCycles]_vars

\* The same with an interval short enough for the clock to pass several of
\* them: the interval command a, retained or dropped by a reload.
ShortReloadInputs ==
  {<<>>, <<ScheduledCommand("a", <<>>, ShortIntervalLen, FALSE)>>}

NextShort ==
  \/ \E n \in Names, f \in BOOLEAN : SetPaused(n, f)
  \/ \E new \in ShortReloadInputs : UpdateCommandsRecorded(new)
  \/ CyclesLoopStep
  \/ Tick
  \/ Cancel

SpecShort == Init /\ [][NextShort]_vars

\* nextExecution on its own: any command set, paused set and clock, one call.
InitNE ==
  /\ commands \in WideSets
  /\ paused \in SUBSET Names
  /\ now \in 1..MaxTime
  /\ wakeup = 0
  /\ cancelled = FALSE
  /\ pc = "compute"
  /\ nextTime = ZeroTime
  /\ cmd = NoCmd
  /\ chatIdx = 1
  /\ dirty = FALSE
  /\ owed = {}
  /\ result = ""
  /\ calls = <<>>
  /\ failed = FALSE
  /\ smu = ""
  /\ fired = {}
  /\ cycleAt = [n \in Names |-> ZeroTime]
  /\ cycleLate = {}
  /\ ConfirmIdle
  /\ ParseIdle
  /\ SessIdle

NextNE == Compute

\* The callers on their own: every command set, lastRun and paused set the
\* program can be in, the loop at its decision point, no clock and no firing.
RunCommands(n) ==
  CommandInputs(n)
  \cup {[ScheduledCommand(n, <<>>, IntervalLen, FALSE) EXCEPT !.lastRun = lr] : lr \in 1..MaxTime}

RunSets ==
  {<<>>}
  \cup {<<c>> : c \in RunCommands("a") \cup RunCommands("b")}
  \cup {<<c, d>> : c \in RunCommands("a"), d \in RunCommands("b")}

InitCalls ==
  /\ commands \in RunSets
  /\ paused \in SUBSET Names
  /\ now = MaxTime
  /\ wakeup = 0
  /\ cancelled = FALSE
  /\ pc = "compute"
  /\ nextTime = ZeroTime
  /\ cmd = NoCmd
  /\ chatIdx = 1
  /\ dirty = FALSE
  /\ owed = {}
  /\ result = ""
  /\ calls = <<>>
  /\ failed = FALSE
  /\ smu = ""
  /\ fired = {}
  /\ cycleAt = [n \in Names |-> ZeroTime]
  /\ cycleLate = {}
  /\ ConfirmIdle
  /\ ParseIdle
  /\ SessIdle

NextCalls ==
  \/ \E n \in Names, f \in BOOLEAN : SetPaused(n, f)
  \/ \E new \in ReloadInputs : UpdateCommands(new)
  \/ Compute
  \/ RecvWakeup

SpecCalls == InitCalls /\ [][NextCalls]_vars

SpecNE == InitNE /\ [][NextNE]_vars

\* ParseTime on its own: one call for every text.
InitParse ==
  /\ text \in Texts
  /\ parsed = NotParsed
  /\ commands = <<>>
  /\ paused = {}
  /\ wakeup = 0
  /\ now = 1
  /\ cancelled = FALSE
  /\ pc = "compute"
  /\ nextTime = ZeroTime
  /\ cmd = NoCmd
  /\ chatIdx = 1
  /\ dirty = FALSE
  /\ owed = {}
  /\ result = ""
  /\ calls = <<>>
  /\ failed = FALSE
  /\ smu = ""
  /\ fired = {}
  /\ cycleAt = [n \in Names |-> ZeroTime]
  /\ cycleLate = {}
  /\ ConfirmIdle
  /\ SessIdle

NextParse == ParseTimeCall

SpecParse == InitParse /\ [][NextParse]_vars

\* The scheduler at rest, as the specifications without it leave it.
SchedIdle ==
  /\ commands = <<>>
  /\ paused = {}
  /\ wakeup = 0
  /\ cancelled = FALSE
  /\ pc = "compute"
  /\ nextTime = ZeroTime
  /\ cmd = NoCmd
  /\ chatIdx = 1
  /\ dirty = FALSE
  /\ owed = {}
  /\ result = ""
  /\ calls = <<>>
  /\ failed = FALSE
  /\ smu = ""
  /\ fired = {}
  /\ cycleAt = [n \in Names |-> ZeroTime]
  /\ cycleLate = {}
  /\ ConfirmIdle

\* The ArgumentCollector and the update handlers, with the clock.
InitSessions ==
  /\ SchedIdle
  /\ now = 1
  /\ ParseIdle
  /\ yamlCommands = LoadedCommands
  /\ sessions = <<>>
  /\ nextSid = 1
  /\ ret = NoRet
  /\ hpc = [h \in Handlers |-> "idle"]
  /\ hlocal = [h \in Handlers |-> NoLocal]
  /\ mu = ""
  /\ retired = [i \in 1..MaxSessions |-> NilSession]
  /\ torn = {}
  /\ hin = [h \in Handlers |-> NoIn]
  /\ completed = [i \in 1..MaxSessions |-> 0]
  /\ executed = [i \in 1..MaxSessions |-> 0]
  /\ discarded = {}

NextSessions ==
  \/ \E chatID \in ChatKeys, c \in yamlCommands : StartSession(chatID, c)
  \/ \E chatID \in ChatKeys : GetSession(chatID)
  \/ \E chatID \in ChatKeys : CancelSession(chatID)
  \/ CleanupExpiredSessions
  \/ \E chatID \in ChatKeys, input \in Inputs : ProcessInput(chatID, input)
  \/ \E h \in Handlers, chatID \in ChatKeys : executeWithArguments(h, chatID)
  \/ \E h \in Handlers, renderOk \in BOOLEAN : executeRenderedCommand(h, renderOk)
  \/ Tick

SpecSessions == InitSessions /\ [][NextSessions]_vars

\* The ConfirmationManager, the callback goroutines and the clock.
InitConfirm ==
  /\ SchedIdle
  /\ now = 1
  /\ ParseIdle
  /\ SessIdle

NextConfirm ==
  \/ \E sendOk \in BOOLEAN : RequestConfirmationSend(sendOk)
  \/ \E id \in ConfirmIDs : RequestConfirmationStore(id)
  \/ \E h \in Handlers, prefix \in CallbackPrefixes, id \in 0..MaxConfirm :
       HandleCallbackLookup(h, prefix, id)
  \/ \E h \in Handlers : HandleCallbackReturn(h)
  \/ cleanupLoop
  \/ Tick

SpecConfirm == InitConfirm /\ [][NextConfirm]_vars

\* StartSession alone: one command of any argument list, started once or
\* again for the chats.
InitStart ==
  /\ SchedIdle
  /\ now = 1
  /\ ParseIdle
  /\ yamlCommands \in {{c} : c \in WideCommandSet}
  /\ sessions = <<>>
  /\ nextSid = 1
  /\ ret = NoRet
  /\ hpc = [h \in Handlers |-> "idle"]
  /\ hlocal = [h \in Handlers |-> NoLocal]
  /\ mu = ""
  /\ retired = [i \in 1..MaxSessions |-> NilSession]
  /\ torn = {}
  /\ hin = [h \in Handlers |-> NoIn]
  /\ completed = [i \in 1..MaxSessions |-> 0]
  /\ executed = [i \in 1..MaxSessions |-> 0]
  /\ discarded = {}

NextStart == \E chatID \in ChatKeys, c \in yamlCommands : StartSession(chatID, c)

SpecStart == InitStart /\ [][NextStart]_vars

\* validateArgument and the timeout alone: a session is started for a command
\* of one argument and the chats send texts.
InitValidate ==
  /\ SchedIdle
  /\ now = 1
  /\ ParseIdle
  /\ yamlCommands \in {{c} : c \in ValidateCommandSet}
  /\ sessions = <<>>
  /\ nextSid = 1
  /\ ret = NoRet
  /\ hpc = [h \in Handlers |-> "idle"]
  /\ hlocal = [h \in Handlers |-> NoLocal]
  /\ mu = ""
  /\ retired = [i \in 1..MaxSessions |-> NilSession]
  /\ torn = {}
  /\ hin = [h \in Handlers |-> NoIn]
  /\ completed = [i \in 1..MaxSessions |-> 0]
  /\ executed = [i \in 1..MaxSessions |-> 0]
  /\ discarded = {}

NextValidate ==
  \/ \E chatID \in ChatKeys, c \in yamlCommands : StartSession(chatID, c)
  \/ \E chatID \in ChatKeys, input \in WideInputs : ProcessInput(chatID, input)

SpecValidate == InitValidate /\ [][NextValidate]_vars

\* The update handlers step by step, for one loaded command: messages with
\* a text, /cancel and the command arrive for the chats and two handlers run
\* at a time.
HandlerInputs == {S_prod, S_5}
HandlerChats == {101}

InitHandlers ==
  /\ SchedIdle
  /\ now = 1
  /\ ParseIdle
  /\ yamlCommands = {DeployCommand}
  /\ sessions = <<>>
  /\ nextSid = 1
  /\ ret = NoRet
  /\ hpc = [h \in Handlers |-> "idle"]
  /\ hlocal = [h \in Handlers |-> NoLocal]
  /\ mu = ""
  /\ retired = [i \in 1..MaxSessions |-> NilSession]
  /\ torn = {}
  /\ hin = [h \in Handlers |-> NoIn]
  /\ completed = [i \in 1..MaxSessions |-> 0]
  /\ executed = [i \in 1..MaxSessions |-> 0]
  /\ discarded = {}

NextHandlers ==
  \/ \E h \in Handlers, chatID \in HandlerChats, c \in yamlCommands : StartCommand(h, chatID, c)
  \/ \E h \in Handlers : StartIsComplete(h)
  \/ \E h \in Handlers, chatID \in HandlerChats, input \in HandlerInputs :
       DispatchText(h, chatID, input)
  \/ \E h \in Handlers : InputGetSession(h)
  \/ \E h \in Handlers : InputIsExpired(h)
  \/ \E h \in Handlers : InputCurrentArg(h)
  \/ \E h \in Handlers : InputProcessInput(h)
  \/ \E h \in Handlers : InputIncrement(h)
  \/ \E h \in Handlers : InputGetSession2(h)
  \/ \E h \in Handlers : InputIsComplete(h)
  \/ \E h \in Handlers : PromptCurrentArg(h)
  \/ \E h \in Handlers : PromptSetLastMsg(h)
  \/ \E h \in Handlers : HandlerComplete(h)
  \/ \E h \in Handlers, renderOk \in BOOLEAN : ~Crashed /\ executeRenderedCommand(h, renderOk)
  \/ \E h \in Handlers, chatID \in HandlerChats : DispatchCancel(h, chatID)
  \/ \E h \in Handlers : CancelHasSession(h)
  \/ \E h \in Handlers : HandlerCancelSession(h)
  \/ ~Crashed /\ Tick

SpecHandlers == InitHandlers /\ [][NextHandlers]_vars

\* The loop's goroutine is scheduled as long as it can take a step.
FairSpec == Spec /\ WF_vars(LoopStep)

\* In addition, select picks among its ready cases at random: a case that is
\* ready again and again is eventually the one picked.
FairSelectSpec == Spec /\ WF_vars(LoopStep) /\ SF_vars(RecvDone)

\* ================================================================ claims
InSet(cmds, name) == \E i \in DOMAIN cmds : cmds[i].Name = name

HasSchedule(c) == c.Interval > 0 \/ Len(c.Times) > 0

MinOf(S) == CHOOSE m \in S : \A x \in S : m <= x

\* The candidate fire time of a schedulable command, as the claims define it.
CandidateTime(c, t) ==
  IF c.Interval > 0
  THEN (IF c.lastRun = ZeroTime THEN t ELSE c.lastRun + c.Interval)
  ELSE MinOf({nextTimeOfDay(t, c.Times[k]) : k \in DOMAIN c.Times})

Candidates(cmds, p) == {i \in DOMAIN cmds : cmds[i].Name \notin p /\ HasSchedule(cmds[i])}

\* The loop is blocked in a select and its timer is not due.
Sleeping == pc = "idle" \/ (pc = "wait" /\ nextTime > now)

\* The configuration of a command, without its run-time state.
Config(c) == [Name |-> c.Name, Times |-> c.Times, Interval |-> c.Interval,
              InitialPaused |-> c.InitialPaused]

\* C1: nextExecution returns a non-paused schedulable command whose candidate
\* time is the least of all non-paused schedulable commands, with that time,
\* and returns (zero, nil) exactly when there is no such command.
C1_EarliestCandidate ==
  LET r == nextExecution(commands, paused, now)
      C == Candidates(commands, paused)
  IN  /\ (r.idx = 0) <=> (C = {})
      /\ r.idx = 0 => r.earliest = ZeroTime
      /\ r.idx # 0 =>
           /\ r.idx \in C
           /\ r.earliest = CandidateTime(commands[r.idx], now)
           /\ \A j \in C : r.earliest <= CandidateTime(commands[j], now)

\* C1 witness: the call returned the second command of two candidates, for
\* the second of its two times of day, which is strictly the earliest.
C1_Witness ==
  /\ pc = "wait"
  /\ cmd.idx = 2
  /\ Candidates(commands, paused) = {1, 2}
  /\ Len(commands[2].Times) = 2
  /\ commands[2].Interval = 0
  /\ nextTime = nextTimeOfDay(now, commands[2].Times[2])
  /\ nextTime < nextTimeOfDay(now, commands[2].Times[1])
  /\ nextTime < CandidateTime(commands[1], now)

\* C2 (as claimed): every arrival of a configured instant of a non-paused
\* time-of-day command that stays in the set leads to a firing cycle of that
\* command: the loop never sleeps on a later fire time, with no signal
\* pending, while such a command is still owed a cycle.
C2_EveryInstantFires == (Sleeping /\ wakeup = 0) => owed = {}

\* C3: a paused command is never the result of nextExecution, and right after
\* SetPaused(name, false) the command takes part in the choice again.
C3_PausedExcluded ==
  [][ /\ Compute => cmd'.Name \notin paused'
      /\ \A n \in Names :
           SetPaused(n, FALSE) =>
             /\ ~IsPaused(n)'
             /\ commands' = commands
             /\ \A i \in DOMAIN commands' :
                  (commands'[i].Name = n /\ HasSchedule(commands'[i])) =>
                    LET r == nextExecution(commands', paused', now')
                    IN  r.idx # 0 /\ r.earliest <= CandidateTime(commands'[i], now')
    ]_vars

\* C3 witness: the loop waits for a command although a paused command has a
\* strictly earlier candidate time, and the other command was unpaused by a
\* call after nextExecution ran and is now the earliest.
C3_Witness ==
  /\ pc = "wait"
  /\ cmd.live
  /\ dirty
  /\ paused = {}
  /\ Len(commands) = 2
  /\ \E i \in DOMAIN commands :
       /\ commands[i].Name # cmd.Name
       /\ CandidateTime(commands[i], now) < nextTime
       /\ nextExecution(commands, paused, now).idx = i

\* C4 (as claimed): an interval command that never fired has the current time
\* as candidate, and when a firing cycle of an interval command starts, the
\* candidate of that command becomes the start time plus the interval.
C4_IntervalCandidate ==
  [][ /\ \A i \in DOMAIN commands :
           (commands[i].Interval > 0 /\ commands[i].lastRun = ZeroTime) =>
             IntervalNextRun(commands[i], now) = now
      /\ (FireStart /\ cmd.Interval > 0) =>
           \A i \in DOMAIN commands' :
             (commands'[i].Name = cmd.Name /\ commands'[i].Interval = cmd.Interval) =>
               IntervalNextRun(commands'[i], now') = now + cmd.Interval
    ]_vars

\* C5: UpdateCommands replaces the set by the new list; a command of the new
\* list has the lastRun of the previous command of its name, or none.
C5_ReplaceKeepsLastRun ==
  [][ \A new \in ReloadInputs :
        UpdateCommands(new) =>
          /\ Len(commands') = Len(new)
          /\ \A i \in DOMAIN new :
               /\ Config(commands'[i]) = Config(new[i])
               /\ commands'[i].lastRun =
                    IF InSet(commands, new[i].Name)
                    THEN commands[CHOOSE j \in DOMAIN commands :
                                    commands[j].Name = new[i].Name].lastRun
                    ELSE ZeroTime
    ]_vars

\* C5 witness: a reload replaced the slice the loop selected from; one
\* command of the new set has the lastRun of an earlier firing cycle, another
\* interval command has none.
C5_Witness ==
  /\ pc = "wait"
  /\ ~cmd.live
  /\ \E i \in DOMAIN commands : commands[i].lastRun # ZeroTime
  /\ \E i \in DOMAIN commands : commands[i].lastRun = ZeroTime /\ commands[i].Interval > 0

\* C6: UpdateCommands leaves the pause state of every retained name as it
\* was, and pauses a name only if it was absent from the previous set and its
\* InitialPaused is set.
C6_ReloadKeepsPause ==
  [][ \A new \in ReloadInputs :
        UpdateCommands(new) =>
          \A n \in Names :
            /\ (InSet(commands, n) /\ InSet(new, n)) => (n \in paused' <=> n \in paused)
            /\ (n \in paused' /\ n \notin paused) =>
                 /\ ~InSet(commands, n)
                 /\ \E i \in DOMAIN new : new[i].Name = n /\ new[i].InitialPaused
    ]_vars

\* C6 witness: after a reload, a command whose InitialPaused is set is not
\* paused (it is the one the loop selected before the reload), while another
\* command is paused.
C6_Witness ==
  /\ pc = "wait"
  /\ ~cmd.live
  /\ \E i \in DOMAIN commands :
       /\ commands[i].Name = cmd.Name
       /\ commands[i].InitialPaused
       /\ commands[i].Name \notin paused
  /\ \E i \in DOMAIN commands : commands[i].Name \in paused

C9_SetPausedIdempotent ==
  [][ \A n \in Names, f \in BOOLEAN :
        (SetPaused(n, f) /\ InSet(commands, n)) =>
          /\ IsPaused(n)' <=> f
          /\ PausedAfterSet(paused', n, f) = paused'
          /\ \A m \in Names \ {n} : IsPaused(m)' <=> IsPaused(m)
          /\ commands' = commands
    ]_vars

\* C9 witness: after a call, a command of the set that does not start
\* paused is paused, and it has a lastRun.
C9_Witness ==
  /\ dirty
  /\ wakeup = 1
  /\ \E i \in DOMAIN commands :
       /\ commands[i].Name \in paused
       /\ ~commands[i].InitialPaused
       /\ commands[i].lastRun # ZeroTime

\* C10: a mutation made after the loop's last nextExecution is never left
\* with the loop blocked and no signal pending, and the loop goes on to run
\* nextExecution again unless it returns on cancellation.
C10_MutationObserved ==
  /\ []((pc \in {"idle", "wait"} /\ dirty) => wakeup = 1)
  /\ (dirty ~> (~dirty \/ pc = "done"))

\* C10 witness: the loop is firing when a mutation arrives whose signal
\* finds the slot already taken by an earlier one.
C10_Witness ==
  /\ pc = "exec"
  /\ dirty
  /\ wakeup = 1
  /\ ~cancelled
  /\ paused # {}
  /\ Len(commands) = 2

\* C11: Run returns only from one of its two selects, with the context
\* cancelled, and its result is the context's error; an ExecuteScheduled call
\* that returns an error leaves Run running, continues the cycle exactly as a
\* call that returns nil does, and Run never stops in between.
C11_OnlyCancellationReturns ==
  /\ [](pc = "done" <=> result = "ctx.Err")
  /\ [](pc = "done" => cancelled)
  /\ [][ /\ (pc' = "done" /\ pc # "done") => (cancelled /\ pc \in {"idle", "wait"})
         /\ ExecuteScheduled(TRUE) =>
              /\ pc' \in {"exec", "compute"}
              /\ result' = ""
              /\ (pc' = "exec") <=> (chatIdx < Len(ChatIDs))
              /\ <<commands, paused, wakeup, cancelled, now>>' =
                   <<commands, paused, wakeup, cancelled, now>>
       ]_vars

\* C11 witness: a call has returned an error and Run, not cancelled, goes on
\* with the cycle while a signal is pending.
C11_Witness ==
  /\ failed
  /\ pc = "exec"
  /\ calls = <<ChatIDs[1]>>
  /\ ~cancelled
  /\ result = ""
  /\ wakeup = 1

\* C12: once the context is cancelled Run returns, whatever it was doing; a
\* cancellation that arrives during executeForAllChats does not end it: Run
\* returns from a select only, after the calls for the remaining chats.
C12_CancelTerminates ==
  /\ (cancelled ~> pc = "done")
  /\ [][ /\ pc \in {"fire", "exec"} => pc' \in {"fire", "exec", "compute"}
         /\ (pc = "exec" /\ cancelled /\ pc' # "exec") =>
              (pc' = "compute" /\ calls \o <<ChatIDs[chatIdx]>> = ChatIDs)
       ]_vars

\* C12 witness: the context was cancelled during a firing cycle, the first
\* call has returned and the call for the second chat is still made.
C12_Witness ==
  /\ cancelled
  /\ pc = "exec"
  /\ chatIdx = 2
  /\ calls = <<ChatIDs[1]>>
  /\ result = ""

\* C13: during a firing cycle the calls made so far are the configured chats
\* in list order, each once, up to the current one; the cycle ends with the
\* call for the last chat of the list, and a call that returns an error moves
\* on to the next chat like one that returns nil.
C13_OncePerChatInOrder ==
  /\ [](pc = "exec" => (chatIdx \in DOMAIN ChatIDs /\ calls = SubSeq(ChatIDs, 1, chatIdx - 1)))
  /\ [](pc # "exec" => calls = <<>>)
  /\ [][ /\ (pc = "fire" /\ pc' # "fire") => (pc' = "exec" /\ chatIdx' = 1)
         /\ (pc = "exec" /\ pc' = "exec" /\ <<chatIdx, calls>>' # <<chatIdx, calls>>) =>
              (chatIdx' = chatIdx + 1 /\ calls' = Append(calls, ChatIDs[chatIdx]))
         /\ (pc = "exec" /\ pc' # "exec") =>
              (pc' = "compute" /\ Append(calls, ChatIDs[chatIdx]) = ChatIDs)
         /\ \A err \in BOOLEAN :
              ExecuteScheduled(err) => (chatIdx < Len(ChatIDs) => pc' = "exec")
       ]_vars

\* C13 witness: the call for the first chat returned an error and the cycle
\* is at the second chat.
C13_Witness ==
  /\ pc = "exec"
  /\ failed
  /\ chatIdx = 2
  /\ calls = <<ChatIDs[1]>>
  /\ wakeup = 0
  /\ ~dirty

TwoDigits(s, k) == (10 * (s[k] - 48)) + (s[k + 1] - 48)

\* Five characters, the third a colon, the others ASCII digits.
IsHHMM(s) ==
  /\ Len(s) = 5
  /\ s[3] = 58
  /\ \A k \in {1, 2, 4, 5} : s[k] \in 48..57

\* C15: ParseTime accepts a text exactly when it is five characters, the third
\* ':' and the others ASCII digits, with the hour at most 23 and the minute at
\* most 59; it then returns the two two-digit values, and otherwise an error
\* with a message and the zero TimeOfDay.
C15_ParseTimeExact ==
  parsed.done =>
    /\ parsed.ok <=> (IsHHMM(text) /\ TwoDigits(text, 1) <= 23 /\ TwoDigits(text, 4) <= 59)
    /\ parsed.ok => (/\ parsed.Hour = TwoDigits(text, 1)
                     /\ parsed.Minute = TwoDigits(text, 4)
                     /\ parsed.Message = "")
    /\ ~parsed.ok => (parsed.Message # "" /\ parsed.Hour = 0 /\ parsed.Minute = 0)

\* C15 witness: the call returned the last time of the day.
C15_Witness ==
  /\ parsed.done
  /\ parsed.ok
  /\ parsed.Hour = 23
  /\ parsed.Minute = 59
  /\ text = <<50, 51, 58, 53, 57>>

\* The stored session of a chat was live at the call: present, not expired,
\* with an argument at the cursor.
Collecting(chatID) ==
  LET session == Lookup(sessions, chatID)
  IN  session.sid # 0 /\ ~IsExpired(session, now) /\ CurrentArg(session) # 0

\* The argument at the cursor of the chat's session.
ArgAtCursor(chatID) ==
  Lookup(sessions, chatID).Arguments[Lookup(sessions, chatID).CurrentIdx + 1]

\* C16: ProcessInput with an input that validateArgument rejects for the
\* argument at the cursor returns a non-empty message and leaves the stored
\* sessions (the cursor, the collected values, the presence of the session)
\* as they were, so that the argument at the cursor is the same.
C16_InvalidInputKeepsState ==
  [][ \A chatID \in ChatKeys, input \in Inputs :
        (/\ ProcessInput(chatID, input)
         /\ Collecting(chatID)
         /\ validateArgument(ArgAtCursor(chatID), input) # "") =>
          /\ ret'.msg # ""
          /\ ret'.msg = validateArgument(ArgAtCursor(chatID), input)
          /\ sessions' = sessions
          /\ Collecting(chatID)'
          /\ ArgAtCursor(chatID)' = ArgAtCursor(chatID)
    ]_vars

\* C16 witness: the second argument of a session was refused: the call
\* returned the message of the integer check, and the session still has its
\* cursor at the second argument with the first answer stored.
C16_Witness ==
  /\ ret.op = "ProcessInput"
  /\ ret.msg = "Please enter a valid integer"
  /\ ret.chat \in DOMAIN sessions
  /\ sessions[ret.chat].CurrentIdx = 1
  /\ sessions[ret.chat].accepted = <<S_prod>>
  /\ DOMAIN sessions[ret.chat].Collected = {"env", "model"}

\* C17: ProcessInput with an input that validateArgument accepts stores the
\* input as it is under the name of the argument at the cursor and moves the
\* cursor by one, changing nothing else; hence in every stored session the
\* cursor is the number of inputs accepted, the k-th accepted input is the
\* value of the k-th argument to ask for, and the session is complete exactly
\* when all of them have been accepted.
C17_ValidInputAdvances ==
  /\ [](\A chatID \in DOMAIN sessions :
          LET session == sessions[chatID]
          IN  /\ session.CurrentIdx = Len(session.accepted)
              /\ session.CurrentIdx <= Len(session.Arguments)
              /\ \A k \in 1..Len(session.accepted) :
                   /\ session.Arguments[k].Name \in DOMAIN session.Collected
                   /\ session.Collected[session.Arguments[k].Name] = session.accepted[k]
              /\ IsComplete(session) <=> (Len(session.accepted) = Len(session.Arguments)))
  /\ [][ \A chatID \in ChatKeys, input \in Inputs :
           (/\ ProcessInput(chatID, input)
            /\ Collecting(chatID)
            /\ validateArgument(ArgAtCursor(chatID), input) = "") =>
             LET old == Lookup(sessions, chatID)
                 new == Lookup(sessions', chatID)
             IN  /\ ret'.msg = ""
                 /\ new.CurrentIdx = old.CurrentIdx + 1
                 /\ DOMAIN new.Collected = DOMAIN old.Collected \cup {ArgAtCursor(chatID).Name}
                 /\ new.Collected[ArgAtCursor(chatID).Name] = input
                 /\ \A n \in DOMAIN old.Collected \ {ArgAtCursor(chatID).Name} :
                      new.Collected[n] = old.Collected[n]
                 /\ new = [old EXCEPT !.Collected = new.Collected,
                                      !.CurrentIdx = new.CurrentIdx,
                                      !.accepted = new.accepted]
                 /\ \A k \in ChatKeys \ {chatID} : Lookup(sessions', k) = Lookup(sessions, k)
       ]_vars

\* C17 witness: after two accepted inputs the session is complete, with the
\* two inputs as the values of the two arguments asked for.
C17_Witness ==
  /\ ret.op = "ProcessInput"
  /\ ret.msg = ""
  /\ ret.chat \in DOMAIN sessions
  /\ sessions[ret.chat].sid = ret.sid
  /\ IsComplete(sessions[ret.chat])
  /\ sessions[ret.chat].CurrentIdx = 2
  /\ sessions[ret.chat].Collected["env"] = S_prod
  /\ sessions[ret.chat].Collected["ver"] = S_5

\* C18: a CompleteSession call for a chat with a stored session returns its
\* collected values and command and removes it; one for a chat without
\* returns nothing.  So no session is returned by two calls, and the handlers
\* execute the command of a session at most once.
C18_CompleteOnce ==
  /\ [](\A i \in 1..MaxSessions : completed[i] <= 1 /\ executed[i] <= completed[i])
  /\ [](\A h \in Handlers : \A g \in Handlers \ {h} :
          hlocal[h].sid # 0 => hlocal[g].sid # hlocal[h].sid)
  /\ [][ \A h \in Handlers, chatID \in ChatKeys :
           executeWithArguments(h, chatID) =>
             IF chatID \in DOMAIN sessions
             THEN /\ ret'.sid = sessions[chatID].sid
                  /\ hlocal'[h].collected = sessions[chatID].Collected
                  /\ hlocal'[h].cmd = sessions[chatID].Command
                  /\ chatID \notin DOMAIN sessions'
                  /\ hpc'[h] = "render"
             ELSE /\ ret'.sid = 0
                  /\ hlocal'[h] = NoLocal
                  /\ hpc'[h] = "idle"
                  /\ sessions' = sessions
       ]_vars

\* C18 witness: while one handler holds the collected values of a complete
\* session, the call of the other handler for the same chat has returned
\* nothing.
C18_Witness ==
  /\ hpc["h1"] = "render"
  /\ hpc["h2"] = "idle"
  /\ hlocal["h1"].cmd = "deploy"
  /\ DOMAIN hlocal["h1"].collected = {"env", "ver", "model"}
  /\ ret.op = "CompleteSession"
  /\ ret.chat = hlocal["h1"].chatID
  /\ ret.sid = 0
  /\ completed[hlocal["h1"].sid] = 1

\* The argument is resolved from its default: it has one and is not required.
AutoResolved(arg) == arg.Default # S_empty /\ ~arg.Required

\* The arguments of the list that are (auto) or are not resolved from their
\* default, in the order of the list.
RECURSIVE Filtered(_, _)
Filtered(args, auto) ==
  IF Len(args) = 0 THEN <<>>
  ELSE IF AutoResolved(Head(args)) = auto
       THEN <<Head(args)>> \o Filtered(Tail(args), auto)
       ELSE Filtered(Tail(args), auto)

\* The argument names of the list are pairwise different.
DistinctNames(args) ==
  \A i \in DOMAIN args : \A j \in DOMAIN args : args[i].Name = args[j].Name => i = j

\* C19 (as claimed): after StartSession every argument that has a default and
\* is not required is not in the list to ask for and collected holds its
\* default under its name; every other argument is in the list to ask for,
\* in declared order, and its name is not in collected; the cursor is 0 and
\* the session is complete exactly when the list to ask for is empty.
C19_PartitionAsClaimed ==
  [][ \A chatID \in ChatKeys, c \in yamlCommands :
        StartSession(chatID, c) =>
          LET session == Lookup(sessions', chatID)
          IN  /\ session.sid # 0
              /\ session.Arguments = Filtered(c.Arguments, FALSE)
              /\ session.CurrentIdx = 0
              /\ IsComplete(session) <=> (Len(session.Arguments) = 0)
              /\ \A i \in DOMAIN c.Arguments :
                   IF AutoResolved(c.Arguments[i])
                   THEN /\ ~Contains(session.Arguments, c.Arguments[i])
                        /\ c.Arguments[i].Name \in DOMAIN session.Collected
                        /\ session.Collected[c.Arguments[i].Name] = c.Arguments[i].Default
                   ELSE /\ Contains(session.Arguments, c.Arguments[i])
                        /\ c.Arguments[i].Name \notin DOMAIN session.Collected
    ]_vars

\* C19 (amended): the list to ask for is the arguments that are required or
\* have no default, in declared order, and never holds an argument resolved
\* from its default; the keys of collected are the names of the arguments
\* resolved from their default, each with the default of the last such
\* argument of that name; the cursor is 0 and the session is complete exactly
\* when the list to ask for is empty.  When the argument names are pairwise
\* different this is the partition as claimed.
C19_PartitionByDefault ==
  [][ \A chatID \in ChatKeys, c \in yamlCommands :
        StartSession(chatID, c) =>
          LET session == Lookup(sessions', chatID)
              auto == {i \in DOMAIN c.Arguments : AutoResolved(c.Arguments[i])}
          IN  /\ session.sid # 0
              /\ session.Arguments = Filtered(c.Arguments, FALSE)
              /\ session.CurrentIdx = 0
              /\ IsComplete(session) <=> (Len(session.Arguments) = 0)
              /\ \A i \in auto : ~Contains(session.Arguments, c.Arguments[i])
              /\ \A i \in DOMAIN c.Arguments \ auto : Contains(session.Arguments, c.Arguments[i])
              /\ DOMAIN session.Collected = {c.Arguments[i].Name : i \in auto}
              /\ \A i \in auto :
                   (\A j \in auto : c.Arguments[j].Name = c.Arguments[i].Name => j <= i) =>
                     session.Collected[c.Arguments[i].Name] = c.Arguments[i].Default
              /\ DistinctNames(c.Arguments) =>
                   \A i \in DOMAIN c.Arguments :
                     IF i \in auto
                     THEN session.Collected[c.Arguments[i].Name] = c.Arguments[i].Default
                     ELSE c.Arguments[i].Name \notin DOMAIN session.Collected
    ]_vars

\* C19 witness: a session was started for a command whose second argument is
\* asked for although its name is also the name of the first, which is
\* resolved from its default.
C19_Witness ==
  /\ ret.op = "StartSession"
  /\ ret.chat \in DOMAIN sessions
  /\ \E c \in yamlCommands :
       /\ Len(c.Arguments) = 3
       /\ AutoResolved(c.Arguments[1])
       /\ ~AutoResolved(c.Arguments[2])
       /\ c.Arguments[2].Default # S_empty
       /\ c.Arguments[2].Name = c.Arguments[1].Name
       /\ c.Arguments[3].Name # c.Arguments[1].Name
       /\ ~AutoResolved(c.Arguments[3])
       /\ sessions[ret.chat].Arguments = <<c.Arguments[2], c.Arguments[3]>>
       /\ DOMAIN sessions[ret.chat].Collected = {c.Arguments[1].Name}

\* The sessions that are stored, by identity.
StoredSids(m) == {m[k].sid : k \in DOMAIN m}

\* C20: every stored session is stored under its own chat only, and no
\* session under two chats; StartSession for a chat puts a new session in the
\* place of the one stored for it, with no input accepted, the cursor at 0
\* and only defaults of the command collected, and leaves the other chats
\* alone; a session that is no longer stored is never stored again, and
\* GetSession, ProcessInput and CompleteSession return the stored session of
\* the chat or nothing.
C20_StartDiscardsPrevious ==
  /\ [](\A k \in DOMAIN sessions :
          /\ k \in ChatKeys
          /\ sessions[k].ChatID = k
          /\ sessions[k].sid \in 1..(nextSid - 1)
          /\ \A j \in DOMAIN sessions : sessions[j].sid = sessions[k].sid => j = k)
  /\ [][ /\ StoredSids(sessions') \subseteq StoredSids(sessions) \cup {nextSid}
         /\ \A chatID \in ChatKeys :
              /\ (\E c \in yamlCommands : StartSession(chatID, c)) =>
                   LET session == Lookup(sessions', chatID)
                   IN  /\ session.sid = nextSid
                       /\ Lookup(sessions, chatID).sid \notin StoredSids(sessions')
                       /\ session.accepted = <<>>
                       /\ session.CurrentIdx = 0
                       /\ \E c \in yamlCommands :
                            /\ session.Command = c.Name
                            /\ \A n \in DOMAIN session.Collected :
                                 \E i \in DOMAIN c.Arguments :
                                   /\ c.Arguments[i].Name = n
                                   /\ c.Arguments[i].Default = session.Collected[n]
                       /\ \A k \in ChatKeys \ {chatID} :
                            Lookup(sessions', k) = Lookup(sessions, k)
              /\ (GetSession(chatID) \/ (\E input \in Inputs : ProcessInput(chatID, input))) =>
                   ret'.sid \in {0, Lookup(sessions, chatID).sid}
              /\ \A h \in Handlers :
                   executeWithArguments(h, chatID) =>
                     /\ ret'.sid = Lookup(sessions, chatID).sid
                     /\ hlocal'[h].sid = Lookup(sessions, chatID).sid
                     /\ hlocal'[h].collected = Lookup(sessions, chatID).Collected
       ]_vars

\* C20 witness: a session with an accepted answer was replaced, and the
\* CompleteSession call after it returned the new session, whose collected
\* values are its default only.
C20_Witness ==
  /\ discarded = {1}
  /\ ret.op = "CompleteSession"
  /\ ret.sid = 2
  /\ \E h \in Handlers :
       /\ hlocal[h].sid = 2
       /\ hlocal[h].cmd = "deploy"
       /\ hlocal[h].collected = Put(<<>>, "model", S_gpt)
  /\ completed[1] = 0
  /\ sessions = <<>>

\* The message of ProcessInput for a chat without a session.
NoActiveSession == "No active argument collection session."

\* The time elapsed since the start of the chat's stored session is greater
\* than its timeout.
TimedOut(chatID) ==
  /\ chatID \in DOMAIN sessions
  /\ now - sessions[chatID].StartedAt > sessions[chatID].TimeoutDur

\* C21: ProcessInput for a chat whose stored session has timed out returns
\* the message it returns for a chat without a session, which is not empty,
\* reports no session and leaves every stored session as it is (no value
\* stored, no cursor moved), whatever the input.
C21_ExpiredSubmitAsAbsent ==
  [][ \A chatID \in ChatKeys, input \in Inputs :
        (/\ ProcessInput(chatID, input)
         /\ (chatID \notin DOMAIN sessions \/ TimedOut(chatID))) =>
          /\ ret'.msg = NoActiveSession
          /\ NoActiveSession # ""
          /\ ret'.sid = 0
          /\ sessions' = sessions
    ]_vars

\* C21 witness: ProcessInput has returned the message for a chat whose
\* session, timed out, still waits for its second, optional argument.
C21_Witness ==
  /\ ret.op = "ProcessInput"
  /\ ret.msg = NoActiveSession
  /\ TimedOut(ret.chat)
  /\ sessions[ret.chat].CurrentIdx = 1
  /\ sessions[ret.chat].accepted = <<S_prod>>
  /\ ~sessions[ret.chat].Arguments[2].Required

\* C22: GetSession returns the stored session of the chat when the time
\* elapsed since its start is at most its timeout, and nothing when it is
\* greater or no session is stored; the start and the timeout of a stored
\* session never change, whatever inputs it accepts.
C22_GetSessionUntilTimeout ==
  [][ /\ \A chatID \in ChatKeys :
           GetSession(chatID) =>
             /\ ret'.sid = IF /\ chatID \in DOMAIN sessions
                              /\ now - sessions[chatID].StartedAt <= sessions[chatID].TimeoutDur
                           THEN sessions[chatID].sid ELSE 0
             /\ (chatID \in DOMAIN sessions /\ ~TimedOut(chatID)) => ret'.sid # 0
             /\ sessions' = sessions
      /\ \A chatID \in DOMAIN sessions \cap DOMAIN sessions' :
           sessions'[chatID].sid = sessions[chatID].sid =>
             /\ sessions'[chatID].StartedAt = sessions[chatID].StartedAt
             /\ sessions'[chatID].TimeoutDur = sessions[chatID].TimeoutDur
    ]_vars

\* C22 witness: GetSession has returned a session that has accepted an input
\* and whose timeout has just elapsed, not more.
C22_Witness ==
  /\ ret.op = "GetSession"
  /\ ret.chat \in DOMAIN sessions
  /\ ret.sid = sessions[ret.chat].sid
  /\ now - sessions[ret.chat].StartedAt = sessions[ret.chat].TimeoutDur
  /\ now = MaxTime
  /\ Len(sessions[ret.chat].accepted) > 0

\* C23: CancelSession removes the session of the chat, leaves the sessions
\* of the other chats alone and changes nothing when the chat has none; it
\* can always be called.  A chat without a session gets one from StartSession
\* only, and until then GetSession returns nothing for it and ProcessInput
\* the message for a chat without a session.
C23_CancelRemoves ==
  /\ [](\A chatID \in ChatKeys : ENABLED CancelSession(chatID))
  /\ [][ \A chatID \in ChatKeys :
           /\ CancelSession(chatID) =>
                /\ chatID \notin DOMAIN sessions'
                /\ \A k \in ChatKeys \ {chatID} : Lookup(sessions', k) = Lookup(sessions, k)
                /\ chatID \notin DOMAIN sessions => sessions' = sessions
                /\ ret'.msg = ""
           /\ (chatID \notin DOMAIN sessions /\ chatID \in DOMAIN sessions') =>
                \E c \in yamlCommands : StartSession(chatID, c)
           /\ chatID \notin DOMAIN sessions =>
                /\ GetSession(chatID) => ret'.sid = 0
                /\ \A input \in Inputs :
                     ProcessInput(chatID, input) =>
                       (ret'.msg = NoActiveSession /\ sessions' = sessions)
       ]_vars

\* C23 witness: the only session that was started is gone before it could
\* time out, without having been completed: the CancelSession call that
\* returned last or one before it removed it.
C23_Witness ==
  /\ ret.op = "CancelSession"
  /\ now = 1
  /\ nextSid = 2
  /\ sessions = <<>>
  /\ completed[1] = 0

\* The text is empty or made of white space only.
Blank(input) == \A k \in DOMAIN input : input[k] \in {" ", "\t", "\n"}

\* The message of the check of a kind.
KindMessage(type) ==
  CASE type = "int" -> "Please enter a valid integer"
    [] type = "bool" -> "Please enter yes/no, true/false, or 1/0"
    [] type = "choice" -> "Please select one of"
    [] OTHER -> ""

\* C24: for an argument of any kind, ProcessInput rejects an empty or blank
\* input of a required argument with the message of the general rule and
\* stores nothing; otherwise it accepts an input that is the empty string,
\* whatever the kind; any other input is accepted or rejected with the
\* message of the argument's kind, never with the message of the general
\* rule.
C24_GeneralRuleFirst ==
  [][ \A chatID \in ChatKeys, input \in WideInputs :
        (ProcessInput(chatID, input) /\ Collecting(chatID)) =>
          LET arg == ArgAtCursor(chatID)
          IN  IF arg.Required /\ Blank(input)
              THEN /\ ret'.msg = "This field is required"
                   /\ sessions' = sessions
              ELSE IF input = S_empty
              THEN /\ ret'.msg = ""
                   /\ Lookup(sessions', chatID).accepted = <<S_empty>>
              ELSE /\ ret'.msg \in {"", KindMessage(arg.Type)}
                   /\ ret'.msg # "This field is required"
    ]_vars

\* C24 witness: the empty string was accepted as the value of an optional
\* argument of kind choice, although it is none of its choices.
C24_Witness ==
  /\ ret.op = "ProcessInput"
  /\ ret.msg = ""
  /\ ret.chat \in DOMAIN sessions
  /\ sessions[ret.chat].accepted = <<S_empty>>
  /\ sessions[ret.chat].Arguments[1].Type = "choice"
  /\ Len(sessions[ret.chat].Arguments[1].Choices) > 0
  /\ ~sessions[ret.chat].Arguments[1].Required

\* C25: for an argument of kind choice, ProcessInput accepts an input that is
\* not the empty string exactly when it is one of the argument's choices,
\* letter for letter, and rejects every other, also when the argument has no
\* choices at all.
C25_ChoiceMembership ==
  [][ \A chatID \in ChatKeys, input \in WideInputs \ {S_empty} :
        (/\ ProcessInput(chatID, input)
         /\ Collecting(chatID)
         /\ ArgAtCursor(chatID).Type = "choice") =>
          ((ret'.msg = "") <=>
             (\E k \in DOMAIN ArgAtCursor(chatID).Choices :
                ArgAtCursor(chatID).Choices[k] = input))
    ]_vars

\* C26: the timeout of the session StartSession creates is the command's
\* argument_timeout when that is positive and the default of the collector
\* when it is zero or negative, so that the new session is not expired.
C26_TimeoutPositiveOrDefault ==
  [][ \A chatID \in ChatKeys, c \in yamlCommands :
        StartSession(chatID, c) =>
          LET session == Lookup(sessions', chatID)
          IN  /\ session.TimeoutDur = IF c.ArgumentTimeout > 0 THEN c.ArgumentTimeout
                                      ELSE defaultArgumentTimeout
              /\ ~(now' - session.StartedAt > session.TimeoutDur)
    ]_vars

\* C27: no handler reads, through the pointer GetSession or StartSession
\* gave it, a session that a ProcessInput of another handler is writing: one
\* with the value stored under the name of the argument at the cursor and
\* the cursor not yet moved.
C27_NoPartialSessionSeen == [](torn = {})

\* C28: once the context is cancelled, the step Run takes at a select is
\* the return: it neither receives the signal that is pending nor takes the
\* timer of a command that is due, so no firing cycle starts after the
\* cancellation.
C28_CancelledReturnsAtSelect ==
  [][ (cancelled /\ pc \in {"idle", "wait"} /\ pc' # pc) => pc' = "done" ]_vars

\* C29: the wakeup channel never holds more than one signal; SetPaused and
\* UpdateCommands can complete in every state, wherever Run is (not yet
\* started, waiting in either select, in a firing cycle, returned), and
\* leave exactly one signal pending whether or not one was pending before
\* (a step that leaves none, or moves Run, is not one of theirs); receiving
\* it leaves none, so the mutations made before the loop receives wake it
\* up once.
C29_SingleSlotSignal ==
  /\ [](wakeup \in {0, 1})
  /\ [](\A n \in Names, f \in BOOLEAN : ENABLED SetPaused(n, f))
  /\ [](\A new \in ReloadInputs : ENABLED UpdateCommands(new))
  /\ [][ /\ (wakeup' # 1 \/ pc' # pc) =>
              /\ \A n \in Names, f \in BOOLEAN : ~SetPaused(n, f)
              /\ \A new \in ReloadInputs : ~UpdateCommands(new)
         /\ wakeup' > wakeup => (wakeup = 0 /\ wakeup' = 1)
         /\ wakeup' < wakeup => (wakeup' = 0 /\ pc \in {"idle", "wait"} /\ pc' = "compute")
     ]_vars

\* C29 witness: Run has returned and a mutation made since its last
\* nextExecution has left one signal that nobody will receive.
C29_Witness ==
  /\ pc = "done"
  /\ wakeup = 1
  /\ dirty
  /\ paused # {}
  /\ Len(commands) > 0

\* C30: the run loop holds s.mu neither at a select (asleep, or waiting for a
\* signal or for cancellation) nor while an executor callback runs, nor after
\* it returned; hence at each of these positions a caller of SetPaused,
\* IsPaused or UpdateCommands gets the lock, or the caller that has it
\* finishes, without a step of the loop.
C30_LoopSleepsUnlocked ==
  /\ [](pc \in {"idle", "wait", "exec", "fire", "done"} => smu # "Run")
  /\ [](smu = "Run" <=> pc \in {"ne", "lastrun"})
  /\ []((pc \notin {"ne", "lastrun"} /\ smu = "") =>
          /\ \A n \in Names, f \in BOOLEAN : ENABLED SetPausedLocked(n, f)
          /\ \A new \in ReloadInputs : ENABLED UpdateCommandsLocked(new))
  /\ []((pc \notin {"ne", "lastrun"} /\ smu # "") => ENABLED UnlockAndSignal)
  /\ [][ (smu # "caller" /\ smu' = "caller") => (pc' = pc /\ now' = now) ]_vars

C30_Witness ==
  /\ pc = "exec"
  /\ calls # <<>>
  /\ smu = "caller"
  /\ dirty
  /\ \E i \in DOMAIN commands : commands[i].lastRun # ZeroTime

C32_ExpiredRemovedOnAccess ==
  [][ \A chatID \in ChatKeys :
        (/\ TimedOut(chatID)
         /\ (GetSession(chatID) \/ \E input \in Inputs : ProcessInput(chatID, input))) =>
          chatID \notin DOMAIN sessions'
    ]_vars

\* C33: when executeForAllChats starts for a command, a command of that name
\* is in s.commands and the name is not paused.
C33_FiresOnlyCurrentUnpaused ==
  [][ (pc = "fire" /\ pc' # "fire") =>
        /\ cmd.Name \notin paused
        /\ \E i \in DOMAIN commands : commands[i].Name = cmd.Name
    ]_vars

\* C34: a firing cycle of an interval command that has been in the command
\* set in interval mode under its name since its last cycle started does not
\* start before that start plus its interval.
C34_IntervalApart ==
  [][ (pc = "fire" /\ pc' # "fire" /\ cmd.Interval > 0
       /\ IntervalIn(commands, cmd.Name) /\ cycleAt[cmd.Name] # ZeroTime) =>
        now >= cycleAt[cmd.Name] + cmd.Interval
    ]_vars

\* C35: a session whose command was rendered and executed had every argument
\* of its to-prompt list collected: its cursor was at the end of the list
\* when CompleteSession took it from the map.
C35_ExecutesOnlyComplete ==
  \A sid \in 1..MaxSessions :
    executed[sid] > 0 =>
      /\ retired[sid].sid = sid
      /\ IsComplete(retired[sid])

\* C36: a command that UpdateCommands adds to the command set (no command of
\* its name was in it) with InitialPaused false is not paused when the call
\* returns.
C36_NewCommandUnpaused ==
  [][ \A i \in DOMAIN commands' :
        (/\ Existing(commands, commands'[i].Name) = 0
         /\ ~commands'[i].InitialPaused) =>
          commands'[i].Name \notin paused'
    ]_vars

\* C37: after a firing cycle of an interval command that started when more
\* than one interval had elapsed since its lastRun, the next cycle of that
\* command (in the set in interval mode ever since) starts no earlier than
\* one interval after that start.
C37_NoBurst ==
  [][ (pc = "fire" /\ pc' # "fire" /\ cmd.Interval > 0
       /\ IntervalIn(commands, cmd.Name) /\ cmd.Name \in cycleLate) =>
        now >= cycleAt[cmd.Name] + cmd.Interval
    ]_vars

\* The command of the configuration a session was started for.
CommandOf(session) == CHOOSE c \in yamlCommands : c.Name = session.Command

\* The keys collected has by the claim: the names of the arguments resolved
\* from their default and of the arguments asked for before the cursor.
ExpectedKeys(session) ==
  {CommandOf(session).Arguments[i].Name :
     i \in {j \in DOMAIN CommandOf(session).Arguments :
              AutoResolved(CommandOf(session).Arguments[j])}}
  \cup {session.Arguments[k].Name : k \in 1..session.CurrentIdx}

\* The cursor of every stored session is within the list to ask for and,
\* the argument names of its command being distinct, the keys of collected
\* are the expected ones.
CursorAndKeys ==
  \A chatID \in DOMAIN sessions :
    LET session == sessions[chatID]
    IN  /\ 0 <= session.CurrentIdx
        /\ session.CurrentIdx <= Len(session.Arguments)
        /\ DistinctNames(CommandOf(session).Arguments) =>
             DOMAIN session.Collected = ExpectedKeys(session)

\* C38 (as claimed): the cursor and the keys of collected of every stored
\* session are as above, and ProcessInput for a stored session whose cursor
\* is at the end returns the empty message and changes no session.
C38_CursorKeysAsClaimed ==
  /\ []CursorAndKeys
  /\ [][ \A chatID \in ChatKeys, input \in Inputs :
           (/\ ProcessInput(chatID, input)
            /\ chatID \in DOMAIN sessions
            /\ IsComplete(sessions[chatID])) =>
             /\ ret'.msg = ""
             /\ sessions' = sessions
       ]_vars

\* C38 (amended): the cursor and the keys of collected of every stored
\* session are as above; ProcessInput for a stored session whose cursor is at
\* the end changes no session, and returns the empty message when the session
\* has not timed out and the message for a chat without a session when it has.
C38_CursorKeysUnlessExpired ==
  /\ []CursorAndKeys
  /\ [][ \A chatID \in ChatKeys, input \in Inputs :
           (/\ ProcessInput(chatID, input)
            /\ chatID \in DOMAIN sessions
            /\ IsComplete(sessions[chatID])) =>
             /\ ret'.msg = IF TimedOut(chatID) THEN NoActiveSession ELSE ""
             /\ sessions' = sessions
       ]_vars

\* C38 witness: ProcessInput has returned the empty message for the stored
\* session of the command whose only argument is resolved from its default:
\* its list to ask for is empty, the cursor at its end, and collected holds
\* that argument alone.  Another chat's session waits for its second argument.
C38_Witness ==
  /\ ret.op = "ProcessInput"
  /\ ret.msg = ""
  /\ ret.chat \in DOMAIN sessions
  /\ sessions[ret.chat].sid = ret.sid
  /\ sessions[ret.chat].Command = "status"
  /\ sessions[ret.chat].CurrentIdx = 0
  /\ DOMAIN sessions[ret.chat].Collected = {"fmt"}
  /\ \E k \in DOMAIN sessions :
       /\ sessions[k].Command = "deploy"
       /\ sessions[k].CurrentIdx = 1
       /\ DOMAIN sessions[k].Collected = {"model", "env"}

\* C39: a pending confirmation is one-shot.  For every id, HandleCallback
\* returns (pending, true) at most once; it returns it only to a confirm
\* callback that found the entry, and no confirm callback finds the entry
\* once a cancel callback (or a granted confirm callback) for that id has
\* been handled; it returns it only when the clock it reads is not after the
\* entry's expiry; the lookup of every confirm or cancel callback for an id
\* leaves no entry for it.
C39_ConfirmationOneShot ==
  /\ [](\A id \in ConfirmIDs : granted[id] <= 1)
  /\ [][ \A h \in Handlers :
           (cb[h].pc = "idle" /\ cb'[h].pc = "check" /\ cb'[h].id # 0) =>
             /\ cb'[h].id \notin DOMAIN pending'
             /\ cb'[h].ok <=> cb'[h].id \in DOMAIN pending
             /\ (cb'[h].id \in cancelSeen \/ granted[cb'[h].id] > 0) => ~cb'[h].ok
       ]_vars
  /\ [][ \A h \in Handlers :
           (cb[h].pc = "check" /\ cb'[h].pc = "idle") =>
             /\ (cb[h].id # 0 /\ granted'[cb[h].id] > granted[cb[h].id]) <=>
                  (cb[h].ok /\ cb[h].confirmed /\ now <= cb[h].ExpiresAt)
             /\ \A id \in ConfirmIDs \ {cb[h].id} : granted'[id] = granted[id]
       ]_vars
  /\ [][ \A id \in ConfirmIDs :
           granted'[id] > granted[id] =>
             \E h \in Handlers : cb[h].pc = "check" /\ cb[h].id = id /\ cb'[h].pc = "idle"
       ]_vars

====
